---- MODULE Spec2Model ----
(***************************************************************************)
(* Reflow Markdown: the structural detectors, the skip policy, the reflow  *)
(* engine (reflowLines) and the edit planner (computeReflowEdits) of       *)
(* src/src/extension.ts, over buffers whose lines are sequences of         *)
(* one-character strings.                                                  *)
(***************************************************************************)
EXTENDS Integers, Sequences, FiniteSets, TLC

\* ------------------------------------------------------------------------
\* Characters and regular expressions
\* ------------------------------------------------------------------------

\* \s of a JavaScript regular expression, as far as lines of a buffer go
WS == {" ", "\t"}

\* The backtick character (U+0060), which a string literal of this language
\* cannot hold: one element of a line, like every other character.
BACKTICK == "backtick"

DIGITS == {"0", "1", "2", "3", "4", "5", "6", "7", "8", "9"}

LETTERS ==
  {"a", "b", "c", "d", "e", "f", "g", "h", "i", "j", "k", "l", "m",
   "n", "o", "p", "q", "r", "s", "t", "u", "v", "w", "x", "y", "z",
   "A", "B", "C", "D", "E", "F", "G", "H", "I", "J", "K", "L", "M",
   "N", "O", "P", "Q", "R", "S", "T", "U", "V", "W", "X", "Y", "Z"}

\* Regular expression syntax trees.  Every expression of the program is
\* anchored at the start of the line (^); $ is the node Eol.
Chr(S) == [t |-> "chr", neg |-> FALSE, set |-> S]
NotChr(S) == [t |-> "chr", neg |-> TRUE, set |-> S]
AnyChr == [t |-> "chr", neg |-> TRUE, set |-> {}]
Cat(items) == [t |-> "cat", items |-> items]
Alt(items) == [t |-> "alt", items |-> items]
\* r{min,max}; max = -1 is "no upper limit"
Rep(r, min, max) == [t |-> "rep", r |-> r, min |-> min, max |-> max]
Star(r) == Rep(r, 0, -1)
Plus(r) == Rep(r, 1, -1)
Opt(r) == Rep(r, 0, 1)
Eol == [t |-> "eol"]
Lit(cs) == Cat([k \in 1..Len(cs) |-> Chr({cs[k]})])

RECURSIVE Ends(_, _, _)
RECURSIVE CatEnds(_, _, _, _)
RECURSIVE RepEnds(_, _, _, _, _)

\* The positions at which a match of re that starts at a position of P can end
Ends(re, s, P) ==
  CASE re.t = "chr" ->
         {p + 1 : p \in {q \in P : q <= Len(s) /\ ((s[q] \in re.set) # re.neg)}}
    [] re.t = "eol" -> {p \in P : p = Len(s) + 1}
    [] re.t = "cat" -> CatEnds(re.items, 1, s, P)
    [] re.t = "alt" -> UNION {Ends(re.items[k], s, P) : k \in DOMAIN re.items}
    [] re.t = "rep" -> RepEnds(re, s, P, 0, {})

CatEnds(items, k, s, P) ==
  IF k > Len(items) \/ P = {} THEN P
  ELSE CatEnds(items, k + 1, s, Ends(items[k], s, P))

RepEnds(re, s, P, n, acc) ==
  LET acc2 == IF n >= re.min THEN acc \cup P ELSE acc
  IN IF P = {} \/ n = re.max THEN acc2
     ELSE RepEnds(re, s, Ends(re.r, s, P) \ acc2, n + 1, acc2)

\* RegExp.prototype.test for an expression anchored with ^
Test(re, s) == Ends(re, s, {1}) # {}

\* ------------------------------------------------------------------------
\* src/src/reConsts.ts
\* ------------------------------------------------------------------------

\* /^\s*import\s+(?:[^'";]+?\s+from\s+)?['"][^'"]+['"]\s*;?\s*$/
MDX_IMPORT_RE ==
  Cat(<<Star(Chr(WS)), Lit(<<"i", "m", "p", "o", "r", "t">>), Plus(Chr(WS)),
        Opt(Cat(<<Plus(NotChr({"'", "\"", ";"})), Plus(Chr(WS)),
                  Lit(<<"f", "r", "o", "m">>), Plus(Chr(WS))>>)),
        Chr({"'", "\""}), Plus(NotChr({"'", "\""})), Chr({"'", "\""}),
        Star(Chr(WS)), Opt(Chr({";"})), Star(Chr(WS)), Eol>>)

\* /^\s*:::/
TRIPLE_COLON_RE == Cat(<<Star(Chr(WS)), Lit(<<":", ":", ":">>)>>)

\* /^\s*<\/?[a-zA-Z][a-zA-Z0-9\-]*(?:\s[^>]*)?\/?>\s*$/
XML_TAG_ONLY_RE ==
  Cat(<<Star(Chr(WS)), Chr({"<"}), Opt(Chr({"/"})), Chr(LETTERS),
        Star(Chr(LETTERS \cup DIGITS \cup {"-"})),
        Opt(Cat(<<Chr(WS), Star(NotChr({">"}))>>)),
        Opt(Chr({"/"})), Chr({">"}), Star(Chr(WS)), Eol>>)

\* /^\s*<!--.*?-->\s*$/
HTML_COMMENT_ONLY_RE ==
  Cat(<<Star(Chr(WS)), Lit(<<"<", "!", "-", "-">>), Star(AnyChr),
        Lit(<<"-", "-", ">">>), Star(Chr(WS)), Eol>>)

\* /^\s*\[\^?[^\]]+\]:[ \t]+/
FOOTNOTE_DEF_RE ==
  Cat(<<Star(Chr(WS)), Chr({"["}), Opt(Chr({"^"})), Plus(NotChr({"]"})),
        Chr({"]"}), Chr({":"}), Plus(Chr({" ", "\t"}))>>)

\* /^\s*[-*]\s+\[[^\]]*\]\([^)]*\)\.?\s*$/
LIST_LINK_ONLY_RE ==
  Cat(<<Star(Chr(WS)), Chr({"-", "*"}), Plus(Chr(WS)), Chr({"["}),
        Star(NotChr({"]"})), Chr({"]"}), Chr({"("}), Star(NotChr({")"})),
        Chr({")"}), Opt(Chr({"."})), Star(Chr(WS)), Eol>>)

\* /^\s*\|?\s*:?-{3,}:?\s*(\|\s*:?-{3,}:?\s*)+\|?\s*$/
MD_TABLE_SEPARATOR_RE ==
  Cat(<<Star(Chr(WS)), Opt(Chr({"|"})), Star(Chr(WS)), Opt(Chr({":"})),
        Rep(Chr({"-"}), 3, -1), Opt(Chr({":"})), Star(Chr(WS)),
        Plus(Cat(<<Chr({"|"}), Star(Chr(WS)), Opt(Chr({":"})),
                   Rep(Chr({"-"}), 3, -1), Opt(Chr({":"})), Star(Chr(WS))>>)),
        Opt(Chr({"|"})), Star(Chr(WS)), Eol>>)

\* /^\s*\|.*\|.*$/
MD_TABLE_ROW_RE ==
  Cat(<<Star(Chr(WS)), Chr({"|"}), Star(AnyChr), Chr({"|"}), Star(AnyChr), Eol>>)

\* /^\s{0,3}#{1,6}(?:\s|$)/
ATX_HEADING_RE ==
  Cat(<<Rep(Chr(WS), 0, 3), Rep(Chr({"#"}), 1, 6), Alt(<<Chr(WS), Eol>>)>>)

\* ------------------------------------------------------------------------
\* The expressions written in the functions of extension.ts
\* ------------------------------------------------------------------------

\* /^\s*---\s*$/
isYamlRe == Cat(<<Star(Chr(WS)), Lit(<<"-", "-", "-">>), Star(Chr(WS)), Eol>>)

\* /^\s*\+\+\+\s*$/
isTomlRe == Cat(<<Star(Chr(WS)), Lit(<<"+", "+", "+">>), Star(Chr(WS)), Eol>>)

\* /^\s*(---|\.\.\.)\s*$/
closingYamlRe ==
  Cat(<<Star(Chr(WS)), Alt(<<Lit(<<"-", "-", "-">>), Lit(<<".", ".", ".">>)>>),
        Star(Chr(WS)), Eol>>)

\* the opening fence /^\s{0,3}(B{3,}|~{3,})/, B the backtick
openRe ==
  Cat(<<Rep(Chr(WS), 0, 3), Alt(<<Rep(Chr({BACKTICK}), 3, -1), Rep(Chr({"~"}), 3, -1)>>)>>)

\* /^(\s*)([*\-+]|\d+\.)\s+(.*)$/
listMatchRe ==
  Cat(<<Star(Chr(WS)),
        Alt(<<Chr({"*", "-", "+"}), Cat(<<Plus(Chr(DIGITS)), Chr({"."})>>)>>),
        Plus(Chr(WS)), Star(AnyChr), Eol>>)

\* /^(\s*)(>+)\s*(.*)$/
blockquoteMatchRe ==
  Cat(<<Star(Chr(WS)), Plus(Chr({">"})), Star(Chr(WS)), Star(AnyChr), Eol>>)

\* ------------------------------------------------------------------------
\* The lines of the buffers
\* ------------------------------------------------------------------------

\* sequences over S of 1 to n elements
SeqsUpTo(S, n) == UNION {[1..m -> S] : m \in 1..n}

\* lines that make the structure of a document
StructLines ==
  {<<>>,
   <<"a", " ", "b">>,
   <<"-", "-", "-">>,
   <<BACKTICK, BACKTICK, BACKTICK>>,
   <<"{", "a", " ", "b", "}">>,
   <<"i", "m", "p", "o", "r", "t", " ", "'", "a", "'">>}

\* lines of paragraphs, one for each trigger of the skip policy
TriggerLines ==
  {<<"a", " ", "b">>,
   <<"#", " ", "a">>,
   <<"i", "m", "p", "o", "r", "t", " ", "'", "a", "'">>,
   <<"[", "a", "]", ":", " ", "b">>,
   <<"|", "a", "|", " ", "b">>,
   <<"-", " ", "[", "a", "]", "(", "b", ")", " ">>,
   <<":", ":", ":", "a", " ", "b">>,
   <<"<", "a", " ", "b", ">">>}

\* lines of units given to reflowLines
UnitLines ==
  {<<"a", " ", "b">>,
   <<"-", " ", "a", " ", "b">>,
   <<">", " ", "a", " ", "b">>,
   <<"1", ".", " ", "b">>,
   <<" ", "a", "a", " ", "-", " ", "b">>,
   <<"a", "b", "c", "d">>}

\* lines of the documents the reflow command is run on
CommandLines ==
  {<<>>,
   <<"a", " ", "b">>,
   <<"a", ".", " ", "b">>,
   <<"<", "a", " ", "b", ">">>,
   <<"<", "!", "-", "-", "a", "-", "-", ">">>,
   <<"#", " ", "a">>,
   <<"-", "-", "-">>,
   <<BACKTICK, BACKTICK, BACKTICK>>,
   <<"{", "a", " ", "b", "}">>}

\* lines of the documents the range detectors are run on
RangeLines ==
  {<<"a">>,
   <<"{">>,
   <<"}">>,
   <<BACKTICK, "{", BACKTICK>>,
   <<BACKTICK, BACKTICK, BACKTICK>>,
   <<"-", "-", "-">>}

\* lines with inline code, for the brace scan
InlineLines ==
  {<<"a">>,
   <<"{">>,
   <<"}">>,
   <<BACKTICK, "{", BACKTICK>>,
   <<BACKTICK, "}", BACKTICK>>,
   <<BACKTICK, "{">>,
   <<BACKTICK, BACKTICK, "{", BACKTICK, "{">>,
   <<BACKTICK, BACKTICK, "{", BACKTICK, "{", BACKTICK, BACKTICK, "{">>,
   <<BACKTICK, "a", BACKTICK, BACKTICK, "{">>}

\* fence lines and lines that look like one
FenceLines ==
  {<<"a">>,
   <<BACKTICK, BACKTICK, BACKTICK>>,
   <<BACKTICK, BACKTICK, BACKTICK, BACKTICK>>,
   <<"~", "~", "~">>,
   <<BACKTICK, BACKTICK, BACKTICK, " ">>,
   <<" ", " ", " ", BACKTICK, BACKTICK, BACKTICK>>,
   <<" ", " ", " ", " ", BACKTICK, BACKTICK, BACKTICK>>,
   <<BACKTICK, BACKTICK, BACKTICK, "a">>}

\* front matter delimiters, blank lines and text
FrontMatterLines ==
  {<<>>,
   <<" ">>,
   <<"a">>,
   <<"-", "-", "-">>,
   <<"-", "-", "-", " ">>,
   <<".", ".", ".">>,
   <<"+", "+", "+">>}

\* list and blockquote lines with and without a content
MarkerLines ==
  {<<"a">>,
   <<"-", " ">>,
   <<" ", "*", " ">>,
   <<"1", ".", " ">>,
   <<">">>,
   <<"-", " ", "a">>,
   <<">", " ", "a">>}

\* list lines with a link, one for each marker of the classifier
ListLinkLines ==
  {<<"a", " ", "b">>,
   <<"-", " ", "[", "a", "]", "(", "b", ")">>,
   <<"*", " ", "[", "a", "]", "(", "b", ")">>,
   <<"+", " ", "[", "a", "]", "(", "b", ")">>,
   <<"1", ".", " ", "[", "a", "]", "(", "b", ")">>,
   <<" ", "-", " ", "[", "a", "]", "(", "b", ")", " ">>,
   <<"-", " ", "[", "a", "]", "(", "b", ")", " ", "c">>}

KnownLines ==
  StructLines \cup TriggerLines \cup UnitLines \cup CommandLines \cup RangeLines
    \cup InlineLines \cup FenceLines \cup FrontMatterLines \cup ListLinkLines
    \cup MarkerLines

\* RegExp.prototype.test on a line of a buffer.  hits is the set of the known
\* lines that re matches, computed once: the test of a known line is looked
\* up in it, every other text is matched.
testLine(re, hits, text) ==
  IF text \in KnownLines THEN text \in hits ELSE Test(re, text)

MdxImportLines == {l \in KnownLines : Test(MDX_IMPORT_RE, l)}
TripleColonLines == {l \in KnownLines : Test(TRIPLE_COLON_RE, l)}
XmlTagOnlyLines == {l \in KnownLines : Test(XML_TAG_ONLY_RE, l)}
HtmlCommentOnlyLines == {l \in KnownLines : Test(HTML_COMMENT_ONLY_RE, l)}
FootnoteDefLines == {l \in KnownLines : Test(FOOTNOTE_DEF_RE, l)}
ListLinkOnlyLines == {l \in KnownLines : Test(LIST_LINK_ONLY_RE, l)}
TableSeparatorLines == {l \in KnownLines : Test(MD_TABLE_SEPARATOR_RE, l)}
TableRowLines == {l \in KnownLines : Test(MD_TABLE_ROW_RE, l)}
AtxHeadingLines == {l \in KnownLines : Test(ATX_HEADING_RE, l)}
YamlLines == {l \in KnownLines : Test(isYamlRe, l)}
TomlLines == {l \in KnownLines : Test(isTomlRe, l)}
ClosingYamlLines == {l \in KnownLines : Test(closingYamlRe, l)}
OpenFenceLines == {l \in KnownLines : Test(openRe, l)}
ListLines == {l \in KnownLines : Test(listMatchRe, l)}
BlockquoteLines == {l \in KnownLines : Test(blockquoteMatchRe, l)}

\* the expressions reConsts.ts exports
RegexNames ==
  {"MDX_IMPORT_RE", "TRIPLE_COLON_RE", "XML_TAG_ONLY_RE", "HTML_COMMENT_ONLY_RE",
   "FOOTNOTE_DEF_RE", "LIST_LINK_ONLY_RE", "MD_TABLE_SEPARATOR_RE", "MD_TABLE_ROW_RE",
   "ATX_HEADING_RE", "HYPERLINK_RE"}

\* those extension.ts imports (lines 5-15)
ImportedRegexes == RegexNames \ {"HYPERLINK_RE"}

\* flags in which ATX_HEADING_RE is global
flagsHeadingGlobal ==
  [n \in RegexNames |-> IF n \in {"HYPERLINK_RE", "ATX_HEADING_RE"} THEN "g" ELSE ""]

\* the flags of each expression, as written in reConsts.ts
flags == [n \in RegexNames |-> IF n = "HYPERLINK_RE" THEN "g" ELSE ""]

regexOf(n) ==
  CASE n = "MDX_IMPORT_RE" -> MDX_IMPORT_RE
    [] n = "TRIPLE_COLON_RE" -> TRIPLE_COLON_RE
    [] n = "XML_TAG_ONLY_RE" -> XML_TAG_ONLY_RE
    [] n = "HTML_COMMENT_ONLY_RE" -> HTML_COMMENT_ONLY_RE
    [] n = "FOOTNOTE_DEF_RE" -> FOOTNOTE_DEF_RE
    [] n = "LIST_LINK_ONLY_RE" -> LIST_LINK_ONLY_RE
    [] n = "MD_TABLE_SEPARATOR_RE" -> MD_TABLE_SEPARATOR_RE
    [] n = "MD_TABLE_ROW_RE" -> MD_TABLE_ROW_RE
    [] n = "ATX_HEADING_RE" -> ATX_HEADING_RE

hitsOf(n) ==
  CASE n = "MDX_IMPORT_RE" -> MdxImportLines
    [] n = "TRIPLE_COLON_RE" -> TripleColonLines
    [] n = "XML_TAG_ONLY_RE" -> XmlTagOnlyLines
    [] n = "HTML_COMMENT_ONLY_RE" -> HtmlCommentOnlyLines
    [] n = "FOOTNOTE_DEF_RE" -> FootnoteDefLines
    [] n = "LIST_LINK_ONLY_RE" -> ListLinkOnlyLines
    [] n = "MD_TABLE_SEPARATOR_RE" -> TableSeparatorLines
    [] n = "MD_TABLE_ROW_RE" -> TableRowLines
    [] n = "ATX_HEADING_RE" -> AtxHeadingLines

\* RegExp.prototype.test of the expression n on text, lastIndex being the
\* position the expression object holds from its last use: the answer and the
\* lastIndex it leaves.  Without the g flag lastIndex is neither read nor
\* written.  With it the match is sought from lastIndex on, which for these
\* expressions, all anchored at the start of the text, finds one only from 0;
\* a match leaves lastIndex at its end, no match leaves it at 0.
regExpTest(n, lastIndex, text) ==
  IF flags[n] # "g"
  THEN [found |-> testLine(regexOf(n), hitsOf(n), text), lastIndex |-> lastIndex]
  ELSE IF lastIndex = 0 /\ testLine(regexOf(n), hitsOf(n), text)
  THEN [found |-> TRUE,
        lastIndex |-> CHOOSE e \in Ends(regexOf(n), text, {1}) :
                        \A f \in Ends(regexOf(n), text, {1}) : f <= e]
  ELSE [found |-> FALSE, lastIndex |-> 0]

\* ------------------------------------------------------------------------
\* Buffers: a document is a non-empty sequence of lines, a line a sequence
\* of characters.  Line numbers are those of the program (from 0).
\* ------------------------------------------------------------------------

lineCount(document) == Len(document)

lineAt(document, i) == document[i + 1]

\* the least element of a non-empty set of integers
Min(S) == CHOOSE x \in S : \A y \in S : x <= y

Max(S) == CHOOSE x \in S : \A y \in S : x >= y

\* text.trim() === ""
isEmptyOrWhitespace(text) == \A k \in 1..Len(text) : text[k] \in WS

\* "no range": the undefined of the program
NoRange == [s |-> -1, e |-> -2]

Range(s, e) == [s |-> s, e |-> e]

\* the number of characters of text, from position p on, that are in S
RECURSIVE runLength(_, _, _)
runLength(text, p, S) ==
  IF p <= Len(text) /\ text[p] \in S THEN 1 + runLength(text, p + 1, S) ELSE 0

\* ------------------------------------------------------------------------
\* Front matter (src/unnamed/part_002)
\* ------------------------------------------------------------------------

\* getFrontMatterRange with a range that begins at the first line
getFrontMatterRangeFromTop(document) ==
  LET n == lineCount(document)
      nonBlank == {k \in 0..(n - 1) : ~isEmptyOrWhitespace(lineAt(document, k))}
  IN IF n = 0 \/ nonBlank = {} THEN NoRange
     ELSE LET first == Min(nonBlank)
              firstText == lineAt(document, first)
              isYaml == testLine(isYamlRe, YamlLines, firstText)
              isToml == testLine(isTomlRe, TomlLines, firstText)
              closers == {k \in (first + 1)..(n - 1) :
                            IF isYaml
                            THEN testLine(closingYamlRe, ClosingYamlLines, lineAt(document, k))
                            ELSE testLine(isTomlRe, TomlLines, lineAt(document, k))}
          IN IF ~isYaml /\ ~isToml THEN NoRange
             ELSE IF closers # {} THEN Range(0, Min(closers))
             ELSE Range(0, n - 1)

getFrontMatterRange(document) ==
  LET n == lineCount(document)
      nonBlank == {k \in 0..(n - 1) : ~isEmptyOrWhitespace(lineAt(document, k))}
  IN IF n = 0 \/ nonBlank = {} THEN NoRange
     ELSE LET first == Min(nonBlank)
              firstText == lineAt(document, first)
              isYaml == testLine(isYamlRe, YamlLines, firstText)
              isToml == testLine(isTomlRe, TomlLines, firstText)
              closers == {k \in (first + 1)..(n - 1) :
                            IF isYaml
                            THEN testLine(closingYamlRe, ClosingYamlLines, lineAt(document, k))
                            ELSE testLine(isTomlRe, TomlLines, lineAt(document, k))}
          IN IF ~isYaml /\ ~isToml THEN NoRange
             ELSE IF closers # {} THEN Range(first, Min(closers))
             ELSE Range(first, n - 1)

\* ------------------------------------------------------------------------
\* Fenced code blocks
\* ------------------------------------------------------------------------

\* closeRe that takes any fence of the character, whatever its length
closeReAnyLength(fenceChar, fenceLen) ==
  Cat(<<Rep(Chr(WS), 0, 3), Rep(Chr({fenceChar}), 3, -1), Star(Chr(WS)), Eol>>)

\* the closing fence /^\s{0,3}${fenceChar}{${fenceLen},}\s*$/
closeRe(fenceChar, fenceLen) ==
  Cat(<<Rep(Chr(WS), 0, 3), Rep(Chr({fenceChar}), fenceLen, -1), Star(Chr(WS)), Eol>>)

\* One iteration of the loop of getFencedCodeBlockRanges on line i; st is
\* [inBlock, blockStart, fenceChar, fenceLen, ranges].
fenceStep(document, i, st) ==
  LET text == lineAt(document, i)
  IN IF ~st.inBlock
     THEN IF testLine(openRe, OpenFenceLines, text)
          THEN LET lead == runLength(text, 1, WS)
                   ch == text[lead + 1]
               IN [st EXCEPT !.inBlock = TRUE, !.blockStart = i, !.fenceChar = ch,
                             !.fenceLen = runLength(text, lead + 1, {ch})]
          ELSE st
     ELSE IF Test(closeRe(st.fenceChar, st.fenceLen), text)
          THEN [st EXCEPT !.inBlock = FALSE, !.fenceChar = "", !.fenceLen = 0,
                          !.ranges = Append(st.ranges, Range(st.blockStart, i))]
          ELSE st

RECURSIVE fenceLoop(_, _, _)
fenceLoop(document, i, st) ==
  IF i < lineCount(document) THEN fenceLoop(document, i + 1, fenceStep(document, i, st))
  ELSE st

\* getFencedCodeBlockRanges without the range of a block left open
getFencedCodeBlockRangesClosedOnly(document) ==
  fenceLoop(document, 0,
            [inBlock |-> FALSE, blockStart |-> 0, fenceChar |-> "",
             fenceLen |-> 0, ranges |-> <<>>]).ranges

getFencedCodeBlockRanges(document) ==
  LET st == fenceLoop(document, 0,
                      [inBlock |-> FALSE, blockStart |-> 0, fenceChar |-> "",
                       fenceLen |-> 0, ranges |-> <<>>])
  IN IF st.inBlock
     THEN Append(st.ranges, Range(st.blockStart, lineCount(document) - 1))
     ELSE st.ranges

\* ranges.find(r => line >= r.start.line && line <= r.end.line)
findRangeContainingLine(ranges, line) ==
  LET hits == {k \in DOMAIN ranges : line >= ranges[k].s /\ line <= ranges[k].e}
  IN IF hits = {} THEN NoRange ELSE ranges[Min(hits)]

rangeOverlapsAny(startLine, endLine, ranges) ==
  \E k \in DOMAIN ranges : ~(endLine < ranges[k].s \/ startLine > ranges[k].e)

\* ------------------------------------------------------------------------
\* Brace expressions
\* ------------------------------------------------------------------------

\* scanLine in which every run of backticks closes the inline code
RECURSIVE scanLineAnyRunCloses(_, _, _)
scanLineAnyRunCloses(text, idx, c) ==
  IF idx >= Len(text) THEN c
  ELSE LET ch == text[idx + 1]
       IN IF ch = BACKTICK
          THEN LET run == runLength(text, idx + 1, {BACKTICK})
                   c2 == IF ~c.inInline
                         THEN [c EXCEPT !.inInline = TRUE, !.inlineTickRun = run]
                         ELSE [c EXCEPT !.inInline = FALSE, !.inlineTickRun = 0]
               IN scanLineAnyRunCloses(text, idx + run, c2)
          ELSE IF c.inInline THEN scanLineAnyRunCloses(text, idx + 1, c)
          ELSE IF ch = "{"
          THEN scanLineAnyRunCloses(text, idx + 1,
                                    [c EXCEPT !.depth = c.depth + 1, !.lineInside = TRUE])
          ELSE IF ch = "}"
          THEN scanLineAnyRunCloses(text, idx + 1,
                                    [c EXCEPT !.depth = Max({0, c.depth - 1})])
          ELSE scanLineAnyRunCloses(text, idx + 1, c)

\* scanLine in which a closing brace at depth 0 takes the depth below 0
RECURSIVE scanLineNoFloor(_, _, _)
scanLineNoFloor(text, idx, c) ==
  IF idx >= Len(text) THEN c
  ELSE LET ch == text[idx + 1]
       IN IF ch = BACKTICK
          THEN LET run == runLength(text, idx + 1, {BACKTICK})
                   c2 == IF ~c.inInline
                         THEN [c EXCEPT !.inInline = TRUE, !.inlineTickRun = run]
                         ELSE IF run >= c.inlineTickRun
                         THEN [c EXCEPT !.inInline = FALSE, !.inlineTickRun = 0]
                         ELSE c
               IN scanLineNoFloor(text, idx + run, c2)
          ELSE IF c.inInline THEN scanLineNoFloor(text, idx + 1, c)
          ELSE IF ch = "{"
          THEN scanLineNoFloor(text, idx + 1,
                               [c EXCEPT !.depth = c.depth + 1, !.lineInside = TRUE])
          ELSE IF ch = "}"
          THEN scanLineNoFloor(text, idx + 1, [c EXCEPT !.depth = c.depth - 1])
          ELSE scanLineNoFloor(text, idx + 1, c)

\* The character loop of getJsxExpressionRanges from index idx (of the
\* program, from 0) on; c is [inInline, inlineTickRun, depth, lineInside].
RECURSIVE scanLine(_, _, _)
scanLine(text, idx, c) ==
  IF idx >= Len(text) THEN c
  ELSE LET ch == text[idx + 1]
       IN IF ch = BACKTICK
          THEN LET run == runLength(text, idx + 1, {BACKTICK})
                   c2 == IF ~c.inInline
                         THEN [c EXCEPT !.inInline = TRUE, !.inlineTickRun = run]
                         ELSE IF run >= c.inlineTickRun
                         THEN [c EXCEPT !.inInline = FALSE, !.inlineTickRun = 0]
                         ELSE c
               IN scanLine(text, idx + run, c2)
          ELSE IF c.inInline THEN scanLine(text, idx + 1, c)
          ELSE IF ch = "{"
          THEN scanLine(text, idx + 1, [c EXCEPT !.depth = c.depth + 1, !.lineInside = TRUE])
          ELSE IF ch = "}"
          THEN scanLine(text, idx + 1, [c EXCEPT !.depth = Max({0, c.depth - 1})])
          ELSE scanLine(text, idx + 1, c)

\* One iteration of the line loop; st is [depth, currentStart, ranges],
\* currentStart = -1 for undefined.
jsxStep(document, fencedRanges, i, st) ==
  IF findRangeContainingLine(fencedRanges, i) # NoRange
  THEN IF st.currentStart # -1
       THEN [st EXCEPT !.ranges = Append(st.ranges, Range(st.currentStart, i - 1)),
                       !.currentStart = -1]
       ELSE st
  ELSE LET c == scanLine(lineAt(document, i), 0,
                         [inInline |-> FALSE, inlineTickRun |-> 0,
                          depth |-> st.depth, lineInside |-> st.depth > 0])
       IN IF c.lineInside
          THEN [st EXCEPT !.depth = c.depth,
                          !.currentStart = IF st.currentStart = -1 THEN i ELSE st.currentStart]
          ELSE IF st.currentStart # -1
          THEN [st EXCEPT !.depth = c.depth, !.currentStart = -1,
                          !.ranges = Append(st.ranges, Range(st.currentStart, i - 1))]
          ELSE [st EXCEPT !.depth = c.depth]

RECURSIVE jsxLoop(_, _, _, _)
jsxLoop(document, fencedRanges, i, st) ==
  IF i < lineCount(document)
  THEN jsxLoop(document, fencedRanges, i + 1, jsxStep(document, fencedRanges, i, st))
  ELSE st

getJsxExpressionRanges(document, fencedRanges) ==
  LET st == jsxLoop(document, fencedRanges, 0,
                    [depth |-> 0, currentStart |-> -1, ranges |-> <<>>])
  IN IF st.currentStart # -1
     THEN Append(st.ranges, Range(st.currentStart, lineCount(document) - 1))
     ELSE st.ranges

\* ------------------------------------------------------------------------
\* The line classifier and the reflow engine
\* ------------------------------------------------------------------------

\* the rest of text from position p (from 1) on
restFrom(text, p) == SubSeq(text, p, Len(text))

\* String.prototype.trim
RECURSIVE trimEnd(_)
trimEnd(text) ==
  IF text # <<>> /\ text[Len(text)] \in WS THEN trimEnd(SubSeq(text, 1, Len(text) - 1))
  ELSE text

trim(text) == trimEnd(restFrom(text, runLength(text, 1, WS) + 1))

getLineContext(text) ==
  LET lead == runLength(text, 1, WS)
      indent == SubSeq(text, 1, lead)
  IN IF testLine(listMatchRe, ListLines, text)
     THEN LET m == IF text[lead + 1] \in {"*", "-", "+"} THEN 1
                   ELSE runLength(text, lead + 1, DIGITS) + 1
              w == runLength(text, lead + m + 1, WS)
          IN [type |-> "list", indent |-> indent,
              prefix |-> SubSeq(text, lead + 1, lead + m),
              content |-> restFrom(text, lead + m + w + 1)]
     ELSE IF testLine(blockquoteMatchRe, BlockquoteLines, text)
     THEN LET g == runLength(text, lead + 1, {">"})
              w == runLength(text, lead + g + 1, WS)
          IN [type |-> "blockquote", indent |-> indent,
              prefix |-> SubSeq(text, lead + 1, lead + g),
              content |-> restFrom(text, lead + g + w + 1)]
     ELSE [type |-> "paragraph", indent |-> indent, prefix |-> <<>>,
           content |-> trim(text)]

\* Array.prototype.join of an array of strings
RECURSIVE join(_, _)
join(strs, sep) ==
  IF strs = <<>> THEN <<>>
  ELSE IF Len(strs) = 1 THEN strs[1]
  ELSE strs[1] \o sep \o join(Tail(strs), sep)

\* text.split(/\s+/) from position p on: the piece up to the next run of
\* white space, then the pieces after that run
RECURSIVE splitFrom(_, _)
splitFrom(text, p) ==
  LET gaps == {q \in p..Len(text) : text[q] \in WS}
  IN IF gaps = {} THEN <<SubSeq(text, p, Len(text))>>
     ELSE LET q == Min(gaps)
          IN <<SubSeq(text, p, q - 1)>> \o splitFrom(text, q + runLength(text, q, WS))

split(text) == splitFrom(text, 1)

\* fill that appends a word only when the line stays shorter than the width
RECURSIVE fillStrict(_, _, _, _)
fillStrict(words, k, effectiveLength, st) ==
  IF k > Len(words) THEN st
  ELSE LET word == words[k]
           st2 == IF st.currentLine = <<>>
                  THEN [st EXCEPT !.currentLine = word]
                  ELSE IF Len(st.currentLine \o <<" ">> \o word) < effectiveLength
                  THEN [st EXCEPT !.currentLine = st.currentLine \o <<" ">> \o word]
                  ELSE [currentLine |-> word,
                        reflowedLines |-> Append(st.reflowedLines, st.currentLine)]
       IN fillStrict(words, k + 1, effectiveLength, st2)

\* fill with the separating space left out of the length that is compared
RECURSIVE fillNoSpace(_, _, _, _)
fillNoSpace(words, k, effectiveLength, st) ==
  IF k > Len(words) THEN st
  ELSE LET word == words[k]
           st2 == IF st.currentLine = <<>>
                  THEN [st EXCEPT !.currentLine = word]
                  ELSE IF Len(st.currentLine \o word) <= effectiveLength
                  THEN [st EXCEPT !.currentLine = st.currentLine \o <<" ">> \o word]
                  ELSE [currentLine |-> word,
                        reflowedLines |-> Append(st.reflowedLines, st.currentLine)]
       IN fillNoSpace(words, k + 1, effectiveLength, st2)

\* The loop "for (const word of words)" of reflowLines from word k on; the
\* result is [currentLine, reflowedLines] after the last word.
RECURSIVE fill(_, _, _, _)
fill(words, k, effectiveLength, st) ==
  IF k > Len(words) THEN st
  ELSE LET word == words[k]
           st2 == IF st.currentLine = <<>>
                  THEN [st EXCEPT !.currentLine = word]
                  ELSE IF Len(st.currentLine \o <<" ">> \o word) <= effectiveLength
                  THEN [st EXCEPT !.currentLine = st.currentLine \o <<" ">> \o word]
                  ELSE [currentLine |-> word,
                        reflowedLines |-> Append(st.reflowedLines, st.currentLine)]
       IN fill(words, k + 1, effectiveLength, st2)

\* ' '.repeat(n)
spaces(n) == [k \in 1..n |-> " "]

\* the words reflowLines wraps: the contents of the lines, joined and split
unitWords(document, startLine, endLine) ==
  LET lines == [k \in 1..(endLine - startLine + 1) |->
                  getLineContext(lineAt(document, startLine + k - 1)).content]
  IN split(trim(join(lines, <<" ">>)))

\* the content lines of reflowLines, before the prefix is added back
fillLines(words, effectiveLength) ==
  LET st == fill(words, 1, effectiveLength, [currentLine |-> <<>>, reflowedLines |-> <<>>])
  IN IF st.currentLine # <<>> THEN Append(st.reflowedLines, st.currentLine)
     ELSE st.reflowedLines

\* prefixLength of reflowLines
prefixLength(context) ==
  Len(context.indent) + (IF context.prefix # <<>> THEN Len(context.prefix) + 1 ELSE 0)

\* addPrefix that repeats the list prefix on every output line
addPrefixNoHang(context, line, index) ==
  IF context.type \in {"list", "blockquote"}
  THEN context.indent \o context.prefix \o <<" ">> \o line
  ELSE context.indent \o line

\* the callback of reflowedLines.map: output line number index (from 0)
addPrefix(context, line, index) ==
  IF context.type = "list"
  THEN IF index = 0 THEN context.indent \o context.prefix \o <<" ">> \o line
       ELSE context.indent \o spaces(Len(context.prefix) + 1) \o line
  ELSE IF context.type = "blockquote"
  THEN context.indent \o context.prefix \o <<" ">> \o line
  ELSE context.indent \o line

reflowLines(document, startLine, endLine, preferredLineLength) ==
  LET context == getLineContext(lineAt(document, startLine))
      words == unitWords(document, startLine, endLine)
      effectiveLength == preferredLineLength - prefixLength(context)
      reflowedLines == fillLines(words, effectiveLength)
  IN [k \in 1..Len(reflowedLines) |-> addPrefix(context, reflowedLines[k], k - 1)]

\* ------------------------------------------------------------------------
\* The skip policy
\* ------------------------------------------------------------------------

paragraphHasMdxImport(document, startLine, endLine) ==
  \E k \in startLine..endLine : testLine(MDX_IMPORT_RE, MdxImportLines, lineAt(document, k))

lineStartsWithTripleColon(text) == testLine(TRIPLE_COLON_RE, TripleColonLines, text)

lineIsXmlTagOnly(text) ==
  \/ testLine(XML_TAG_ONLY_RE, XmlTagOnlyLines, text)
  \/ testLine(HTML_COMMENT_ONLY_RE, HtmlCommentOnlyLines, text)

paragraphHasFootnoteDef(document, startLine, endLine) ==
  \E k \in startLine..endLine : testLine(FOOTNOTE_DEF_RE, FootnoteDefLines, lineAt(document, k))

\* paragraphHasListLinkOnly that tests the first line of the unit alone
paragraphHasListLinkOnlyFirstLine(document, startLine, endLine) ==
  testLine(LIST_LINK_ONLY_RE, ListLinkOnlyLines, lineAt(document, startLine))

paragraphHasListLinkOnly(document, startLine, endLine) ==
  \E k \in startLine..endLine : testLine(LIST_LINK_ONLY_RE, ListLinkOnlyLines, lineAt(document, k))

paragraphHasMarkdownTable(document, startLine, endLine) ==
  \E k \in startLine..endLine :
    \/ testLine(MD_TABLE_SEPARATOR_RE, TableSeparatorLines, lineAt(document, k))
    \/ testLine(MD_TABLE_ROW_RE, TableRowLines, lineAt(document, k))

paragraphHasAtxHeading(document, startLine, endLine) ==
  \E k \in startLine..endLine : testLine(ATX_HEADING_RE, AtxHeadingLines, lineAt(document, k))

\* The line at which getFirstContentParagraphRange resolves the first content
\* paragraph: the first line after the front matter that is neither blank nor
\* an import; lineCount(document) when there is none.
firstContentLine(document) ==
  LET fmr == getFrontMatterRange(document)
      from == IF fmr # NoRange THEN fmr.e + 1 ELSE 0
      content == {k \in from..(lineCount(document) - 1) :
                    ~(\/ isEmptyOrWhitespace(lineAt(document, k))
                      \/ testLine(MDX_IMPORT_RE, MdxImportLines, lineAt(document, k)))}
  IN IF content = {} THEN lineCount(document) ELSE Min(content)

\* ------------------------------------------------------------------------
\* State
\* ------------------------------------------------------------------------

VARIABLES
  document,      \* computeReflowEdits: the buffer
  targetRange,   \* the lines of the range to format, NoRange for the whole document
  settings,      \* [preferredLineLength, neverReflowFirstParagraph]
  fm,            \* the front matter range, NoRange if there is none
  fenced,        \* the fenced code ranges
  jsxExpr,       \* the brace expression ranges
  i,             \* the cursor of the planner loop
  edits,         \* the edits pushed so far: [s, e, newText]
  sei,           \* the extent resolved at the cursor
  pc,            \* "start", "loop", "resolved", "done"; "idle" outside a pass
  unitOf,        \* what getStartLine/getEndLine answered, by seed line
  resolver,      \* "any" or "units": which answers they may give
  visited,       \* history: the extents the loop resolved, with what became of them
  unit,          \* reflowLines: the lines of the unit
  preferredLineLength,
  reflowed,      \* the lines reflowLines returned for unit
  again,         \* the lines reflowLines returned for reflowed
  phase,         \* "input", "reflowed", "again"; "idle" outside
  position,      \* reflow: the line of the cursor (editor.selection.active); -1 outside
  invocation,    \* computeReflowEdits: the number of the invocation (1, 2); 0 outside
  firstEdits     \* the edits the first invocation returned

vars ==
  <<document, targetRange, settings, fm, fenced, jsxExpr, i, edits, sei, pc,
    unitOf, resolver, visited, unit, preferredLineLength, reflowed, again, phase,
    position, invocation, firstEdits>>

planVars ==
  <<document, targetRange, settings, fm, fenced, jsxExpr, i, edits, sei, pc,
    unitOf, resolver, visited>>

reflowVars == <<unit, preferredLineLength, reflowed, again, phase>>

commandVars == <<position>>

callVars == <<invocation, firstEdits>>

\* ------------------------------------------------------------------------
\* Bounds and inputs
\* ------------------------------------------------------------------------

\* the longest document of a planning pass, in lines
MaxLines == 3

\* the longest unit given to reflowLines, in lines
MaxUnitLines == 2

\* the largest preferredLineLength given to reflowLines
MaxWidth == 4

\* the plain paragraph line
PlainLine == <<"a", " ", "b">>

\* The documents of a planning pass: every document of structure lines, and
\* every paragraph of plain lines with at most one line that is a trigger of
\* the skip policy.
Documents ==
  SeqsUpTo(StructLines, MaxLines) \cup
  {d \in SeqsUpTo(TriggerLines, MaxLines) :
     Cardinality({k \in DOMAIN d : d[k] # PlainLine}) <= 1}

\* the line ranges a formatting request can name in a document of n lines
TargetRanges(n) ==
  {NoRange} \cup {r \in {Range(a, b) : a, b \in 0..(n - 1)} : r.s <= r.e}

\* preferredLineLength: narrower than every paragraph line above
PlanWidths == {2}

Settings ==
  [preferredLineLength : PlanWidths, neverReflowFirstParagraph : BOOLEAN]

\* ------------------------------------------------------------------------
\* The unit resolver (getStartLine, getEndLine of testable.ts)
\* ------------------------------------------------------------------------

\* The extents the resolver may answer for seed line k.  It is a function of
\* the buffer: a seed it has answered for gets the same answer.  Otherwise
\* "any" allows every extent that holds the seed, "units" those of them that
\* share no line with an extent already answered (the units partition the
\* buffer: every line of a unit resolves to that unit).
extentsAt(k) ==
  IF unitOf[k] # NoRange THEN {unitOf[k]}
  ELSE LET all == {Range(a, b) : a \in 0..k, b \in k..(lineCount(document) - 1)}
       IN IF resolver = "any" THEN all
          ELSE {r \in all : \A j \in r.s..r.e : unitOf[j] = NoRange}

\* unitOf once the resolver answered r for seed k
answered(k, r) ==
  IF resolver = "any" THEN [unitOf EXCEPT ![k] = r]
  ELSE [j \in DOMAIN unitOf |-> IF r.s <= j /\ j <= r.e THEN r ELSE unitOf[j]]

getFirstContentParagraphRange(doc) ==
  IF firstContentLine(doc) >= lineCount(doc) THEN NoRange
  ELSE unitOf[firstContentLine(doc)]

\* ------------------------------------------------------------------------
\* shouldSkipParagraph; ctx is the ParagraphSkipContext
\* ------------------------------------------------------------------------

skipFrontMatter(ctx) ==
  /\ ctx.frontMatterRange # NoRange
  /\ ~(ctx.lineEnd < ctx.frontMatterRange.s \/ ctx.lineStart > ctx.frontMatterRange.e)

skipFencedOrJsx(ctx) ==
  \/ rangeOverlapsAny(ctx.lineStart, ctx.lineEnd, ctx.fencedRanges)
  \/ rangeOverlapsAny(ctx.lineStart, ctx.lineEnd, ctx.jsxExprRanges)

\* skipFirstParagraph that takes the first paragraph to be its first line
skipFirstParagraphFirstLine(ctx) ==
  /\ ctx.settings.neverReflowFirstParagraph
  /\ LET firstPara == getFirstContentParagraphRange(ctx.document)
     IN /\ firstPara # NoRange
        /\ ~(ctx.lineEnd < firstPara.s \/ ctx.lineStart > firstPara.s)

skipFirstParagraph(ctx) ==
  /\ ctx.settings.neverReflowFirstParagraph
  /\ LET firstPara == getFirstContentParagraphRange(ctx.document)
     IN /\ firstPara # NoRange
        /\ ~(ctx.lineEnd < firstPara.s \/ ctx.lineStart > firstPara.e)

skipTripleColon(ctx) ==
  /\ ctx.lineStart = ctx.lineEnd
  /\ lineStartsWithTripleColon(lineAt(ctx.document, ctx.lineStart))

skipXmlTagOnly(ctx) ==
  /\ ctx.lineStart = ctx.lineEnd
  /\ lineIsXmlTagOnly(lineAt(ctx.document, ctx.lineStart))

\* shouldSkipParagraph without the test of the fenced and brace ranges
shouldSkipParagraphNoRanges(ctx) ==
  \/ skipFrontMatter(ctx)
  \/ paragraphHasAtxHeading(ctx.document, ctx.lineStart, ctx.lineEnd)
  \/ paragraphHasMdxImport(ctx.document, ctx.lineStart, ctx.lineEnd)
  \/ paragraphHasFootnoteDef(ctx.document, ctx.lineStart, ctx.lineEnd)
  \/ paragraphHasMarkdownTable(ctx.document, ctx.lineStart, ctx.lineEnd)
  \/ paragraphHasListLinkOnly(ctx.document, ctx.lineStart, ctx.lineEnd)
  \/ skipFirstParagraph(ctx)
  \/ skipTripleColon(ctx)
  \/ skipXmlTagOnly(ctx)

\* shouldSkipParagraph without the test for a heading line
shouldSkipParagraphNoHeading(ctx) ==
  \/ skipFrontMatter(ctx)
  \/ skipFencedOrJsx(ctx)
  \/ paragraphHasMdxImport(ctx.document, ctx.lineStart, ctx.lineEnd)
  \/ paragraphHasFootnoteDef(ctx.document, ctx.lineStart, ctx.lineEnd)
  \/ paragraphHasMarkdownTable(ctx.document, ctx.lineStart, ctx.lineEnd)
  \/ paragraphHasListLinkOnly(ctx.document, ctx.lineStart, ctx.lineEnd)
  \/ skipFirstParagraph(ctx)
  \/ skipTripleColon(ctx)
  \/ skipXmlTagOnly(ctx)

shouldSkipParagraph(ctx) ==
  \/ skipFrontMatter(ctx)
  \/ skipFencedOrJsx(ctx)
  \/ paragraphHasAtxHeading(ctx.document, ctx.lineStart, ctx.lineEnd)
  \/ paragraphHasMdxImport(ctx.document, ctx.lineStart, ctx.lineEnd)
  \/ paragraphHasFootnoteDef(ctx.document, ctx.lineStart, ctx.lineEnd)
  \/ paragraphHasMarkdownTable(ctx.document, ctx.lineStart, ctx.lineEnd)
  \/ paragraphHasListLinkOnly(ctx.document, ctx.lineStart, ctx.lineEnd)
  \/ skipFirstParagraph(ctx)
  \/ skipTripleColon(ctx)
  \/ skipXmlTagOnly(ctx)

\* ------------------------------------------------------------------------
\* computeReflowEdits
\* ------------------------------------------------------------------------

hasRange == targetRange # NoRange

startLine == IF hasRange THEN targetRange.s ELSE 0

endLine == IF hasRange THEN targetRange.e ELSE lineCount(document) - 1

\* document.getText of the whole lines lineStart..lineEnd
getText(doc, lineStart, lineEnd) ==
  join([k \in 1..(lineEnd - lineStart + 1) |-> lineAt(doc, lineStart + k - 1)], <<"\n">>)

\* getReflowedText of testable.ts: the reflow engine on the unit, its output
\* lines joined by newlines
getReflowedText(doc, extent, cfg) ==
  join(reflowLines(doc, extent.s, extent.e, cfg.preferredLineLength), <<"\n">>)

skipContext ==
  [document |-> document, lineStart |-> sei.s, lineEnd |-> sei.e,
   fencedRanges |-> fenced, jsxExprRanges |-> jsxExpr, frontMatterRange |-> fm,
   settings |-> settings]

\* afterUnit that moves the cursor to the line after the first line of the unit
afterUnitStart(extent) == extent.s + 1

\* the cursor after the unit whose extent is extent
afterUnit(extent) == extent.e + 1

\* the cursor after the structural range r
afterRange(r) == r.e + 1

\* fm.contains(targetRange)
contains(outer, inner) == outer.s <= inner.s /\ inner.e <= outer.e

\* lines 496-513: the ranges, the cursor, the return for a range in the
\* front matter
Begin ==
  /\ pc = "start"
  /\ fm' = getFrontMatterRange(document)
  /\ fenced' = getFencedCodeBlockRanges(document)
  /\ jsxExpr' = getJsxExpressionRanges(document, fenced')
  /\ i' = IF ~hasRange /\ fm' # NoRange THEN Max({startLine, fm'.e + 1}) ELSE startLine
  /\ pc' = IF hasRange /\ fm' # NoRange /\ contains(fm', targetRange) THEN "done" ELSE "loop"
  /\ LET first == firstContentLine(document)
     IN IF settings.neverReflowFirstParagraph /\ first < lineCount(document)
        THEN \E r \in extentsAt(first) : unitOf' = answered(first, r)
        ELSE UNCHANGED unitOf
  /\ UNCHANGED <<document, targetRange, settings, edits, sei, resolver, visited>>
  /\ UNCHANGED reflowVars
  /\ UNCHANGED commandVars
  /\ UNCHANGED callVars

inFrontMatter == fm # NoRange /\ i >= fm.s /\ i <= fm.e

\* while (i <= endLine) is false
LoopExit ==
  /\ pc = "loop"
  /\ i > endLine
  /\ pc' = "done"
  /\ UNCHANGED <<document, targetRange, settings, fm, fenced, jsxExpr, i, edits, sei,
                 unitOf, resolver, visited>>
  /\ UNCHANGED reflowVars
  /\ UNCHANGED commandVars
  /\ UNCHANGED callVars

SkipFrontMatter ==
  /\ pc = "loop"
  /\ i <= endLine
  /\ inFrontMatter
  /\ i' = afterRange(fm)
  /\ UNCHANGED <<document, targetRange, settings, fm, fenced, jsxExpr, edits, sei, pc,
                 unitOf, resolver, visited>>
  /\ UNCHANGED reflowVars
  /\ UNCHANGED commandVars
  /\ UNCHANGED callVars

SkipFenced ==
  /\ pc = "loop"
  /\ i <= endLine
  /\ ~inFrontMatter
  /\ findRangeContainingLine(fenced, i) # NoRange
  /\ i' = afterRange(findRangeContainingLine(fenced, i))
  /\ UNCHANGED <<document, targetRange, settings, fm, fenced, jsxExpr, edits, sei, pc,
                 unitOf, resolver, visited>>
  /\ UNCHANGED reflowVars
  /\ UNCHANGED commandVars
  /\ UNCHANGED callVars

SkipJsx ==
  /\ pc = "loop"
  /\ i <= endLine
  /\ ~inFrontMatter
  /\ findRangeContainingLine(fenced, i) = NoRange
  /\ findRangeContainingLine(jsxExpr, i) # NoRange
  /\ i' = afterRange(findRangeContainingLine(jsxExpr, i))
  /\ UNCHANGED <<document, targetRange, settings, fm, fenced, jsxExpr, edits, sei, pc,
                 unitOf, resolver, visited>>
  /\ UNCHANGED reflowVars
  /\ UNCHANGED commandVars
  /\ UNCHANGED callVars

\* lines 536-546: the extent of the unit at the cursor
ResolveUnit ==
  /\ pc = "loop"
  /\ i <= endLine
  /\ ~inFrontMatter
  /\ findRangeContainingLine(fenced, i) = NoRange
  /\ findRangeContainingLine(jsxExpr, i) = NoRange
  /\ \E r \in extentsAt(i) :
       /\ sei' = r
       /\ unitOf' = answered(i, r)
  /\ pc' = "resolved"
  /\ UNCHANGED <<document, targetRange, settings, fm, fenced, jsxExpr, i, edits,
                 resolver, visited>>
  /\ UNCHANGED reflowVars
  /\ UNCHANGED commandVars
  /\ UNCHANGED callVars

\* outsideOrCrossing that lets pass a unit that begins before the range
outsideOrCrossingEnd ==
  /\ hasRange
  /\ \/ sei.e < startLine
     \/ sei.s > endLine
     \/ sei.e > endLine

outsideOrCrossing ==
  /\ hasRange
  /\ \/ sei.e < startLine
     \/ sei.s > endLine
     \/ sei.s < startLine
     \/ sei.e > endLine

\* lines 548-553: a unit outside the range or crossing its boundary
RangeSkip ==
  /\ pc = "resolved"
  /\ outsideOrCrossing
  /\ IF sei.e >= startLine /\ sei.s > endLine
     THEN /\ pc' = "done"
          /\ i' = i
          /\ visited' = Append(visited, [s |-> sei.s, e |-> sei.e, how |-> "break"])
     ELSE /\ pc' = "loop"
          /\ i' = afterUnit(sei)
          /\ visited' = Append(visited, [s |-> sei.s, e |-> sei.e, how |-> "range"])
  /\ UNCHANGED <<document, targetRange, settings, fm, fenced, jsxExpr, edits, sei,
                 unitOf, resolver>>
  /\ UNCHANGED reflowVars
  /\ UNCHANGED commandVars
  /\ UNCHANGED callVars

\* lines 555-568
PolicySkip ==
  /\ pc = "resolved"
  /\ ~outsideOrCrossing
  /\ shouldSkipParagraph(skipContext)
  /\ i' = afterUnit(sei)
  /\ pc' = "loop"
  /\ visited' = Append(visited, [s |-> sei.s, e |-> sei.e, how |-> "policy"])
  /\ UNCHANGED <<document, targetRange, settings, fm, fenced, jsxExpr, edits, sei,
                 unitOf, resolver>>
  /\ UNCHANGED reflowVars
  /\ UNCHANGED commandVars
  /\ UNCHANGED callVars

\* isEdit without the comparison
isEditAlways(original, reflowedText) == TRUE

\* does the planner push an edit that replaces original by reflowedText
isEdit(original, reflowedText) == original # reflowedText

\* lines 570-580
ReflowUnit ==
  /\ pc = "resolved"
  /\ ~outsideOrCrossing
  /\ ~shouldSkipParagraph(skipContext)
  /\ LET original == getText(document, sei.s, sei.e)
         reflowedText == getReflowedText(document, sei, settings)
     IN IF isEdit(original, reflowedText)
        THEN /\ edits' = Append(edits, [s |-> sei.s, e |-> sei.e, newText |-> reflowedText])
             /\ visited' = Append(visited, [s |-> sei.s, e |-> sei.e, how |-> "edit"])
        ELSE /\ edits' = edits
             /\ visited' = Append(visited, [s |-> sei.s, e |-> sei.e, how |-> "same"])
  /\ i' = afterUnit(sei)
  /\ pc' = "loop"
  /\ UNCHANGED <<document, targetRange, settings, fm, fenced, jsxExpr, sei,
                 unitOf, resolver>>
  /\ UNCHANGED reflowVars
  /\ UNCHANGED commandVars
  /\ UNCHANGED callVars

PlanNext ==
  \/ Begin
  \/ LoopExit
  \/ SkipFrontMatter
  \/ SkipFenced
  \/ SkipJsx
  \/ ResolveUnit
  \/ RangeSkip
  \/ PolicySkip
  \/ ReflowUnit

reflowIdle ==
  /\ unit = <<>>
  /\ preferredLineLength = 0
  /\ reflowed = <<>>
  /\ again = <<>>
  /\ phase = "idle"

commandIdle == position = -1

callIdle == invocation = 0 /\ firstEdits = <<>>

PlanInit(kind) ==
  /\ document \in Documents
  /\ targetRange \in TargetRanges(lineCount(document))
  /\ settings \in Settings
  /\ fm = NoRange
  /\ fenced = <<>>
  /\ jsxExpr = <<>>
  /\ i = 0
  /\ edits = <<>>
  /\ sei = NoRange
  /\ pc = "start"
  /\ unitOf = [k \in 0..(lineCount(document) - 1) |-> NoRange]
  /\ resolver = kind
  /\ visited = <<>>
  /\ reflowIdle
  /\ commandIdle
  /\ invocation = 1
  /\ firstEdits = <<>>

\* the planner with a resolver that may answer any extent holding the seed
Init == PlanInit("any")

Next == PlanNext

Spec == Init /\ [][Next]_vars

\* the planner with a resolver whose extents partition the buffer
UnitsInit == PlanInit("units")

SpecUnits == UnitsInit /\ [][Next]_vars

\* A second invocation of computeReflowEdits on the same buffer, range and
\* settings.  The locals of the first one are dead: the second one starts
\* from line 495 with an empty edit list and computes every range anew in
\* Begin.  The buffer is the same, so the resolver answers as before.
Reinvoke ==
  /\ pc = "done"
  /\ invocation = 1
  /\ invocation' = 2
  /\ firstEdits' = edits
  /\ edits' = <<>>
  /\ visited' = <<>>
  /\ pc' = "start"
  /\ UNCHANGED <<document, targetRange, settings, fm, fenced, jsxExpr, i, sei,
                 unitOf, resolver>>
  /\ UNCHANGED reflowVars
  /\ UNCHANGED commandVars

TwiceNext ==
  \/ PlanNext
  \/ Reinvoke

SpecTwice == UnitsInit /\ [][TwiceNext]_vars

\* computeReflowEdits(document, undefined, settings), the pass of
\* provideDocumentFormattingEdits
DocumentInit == UnitsInit /\ targetRange = NoRange

\* After it computeReflowEdits(document, range, settings), the pass of
\* provideDocumentRangeFormattingEdits, on the same buffer and settings
\* with a range of its lines.  The buffer is the same, so the resolver
\* answers as before.
ReinvokeOnRange ==
  /\ pc = "done"
  /\ invocation = 1
  /\ ~hasRange
  /\ lineCount(document) > 0
  /\ targetRange' \in TargetRanges(lineCount(document)) \ {NoRange}
  /\ invocation' = 2
  /\ firstEdits' = edits
  /\ edits' = <<>>
  /\ visited' = <<>>
  /\ pc' = "start"
  /\ UNCHANGED <<document, settings, fm, fenced, jsxExpr, i, sei, unitOf, resolver>>
  /\ UNCHANGED reflowVars
  /\ UNCHANGED commandVars

DocumentThenRangeNext ==
  \/ PlanNext
  \/ ReinvokeOnRange

SpecDocumentThenRange == DocumentInit /\ [][DocumentThenRangeNext]_vars

\* ------------------------------------------------------------------------
\* computeReflowEdits of the earlier revision, its skip checks inlined in
\* the loop (unnamed/part_002, lines 383-522).  Up to the resolution of the
\* unit (lines 389-438) it is the code of the final revision: Begin,
\* LoopExit, SkipFrontMatter, SkipFenced, SkipJsx and ResolveUnit.
\* ------------------------------------------------------------------------

\* line 441: the unit shares a line with the front matter
overlapsFrontMatter ==
  /\ fm # NoRange
  /\ ~(sei.e < fm.s \/ sei.s > fm.e)

\* line 442: Math.max(i, fm.end.line + 1)
afterFrontMatter(cursor, range) == Max({cursor, range.e + 1})

\* lines 440-444
EarlierFrontMatterOverlap ==
  /\ pc = "resolved"
  /\ overlapsFrontMatter
  /\ i' = afterFrontMatter(i, fm)
  /\ pc' = "loop"
  /\ UNCHANGED <<document, targetRange, settings, fm, fenced, jsxExpr, edits, sei,
                 unitOf, resolver, visited>>
  /\ UNCHANGED reflowVars
  /\ UNCHANGED commandVars
  /\ UNCHANGED callVars

\* lines 446-499: the checks on the unit, one after the other (the list-link
\* pattern of this revision has no optional full stop after the link; no
\* line of Documents tells the two apart)
inlinedSkip ==
  \/ skipFencedOrJsx(skipContext)
  \/ paragraphHasAtxHeading(document, sei.s, sei.e)
  \/ paragraphHasMdxImport(document, sei.s, sei.e)
  \/ paragraphHasFootnoteDef(document, sei.s, sei.e)
  \/ paragraphHasMarkdownTable(document, sei.s, sei.e)
  \/ paragraphHasListLinkOnly(document, sei.s, sei.e)
  \/ skipFirstParagraph(skipContext)
  \/ skipTripleColon(skipContext)

EarlierInlinedSkip ==
  /\ pc = "resolved"
  /\ ~overlapsFrontMatter
  /\ inlinedSkip
  /\ i' = afterUnit(sei)
  /\ pc' = "loop"
  /\ visited' = Append(visited, [s |-> sei.s, e |-> sei.e, how |-> "policy"])
  /\ UNCHANGED <<document, targetRange, settings, fm, fenced, jsxExpr, edits, sei,
                 unitOf, resolver>>
  /\ UNCHANGED reflowVars
  /\ UNCHANGED commandVars
  /\ UNCHANGED callVars

\* lines 501-506
EarlierRangeSkip ==
  /\ pc = "resolved"
  /\ ~overlapsFrontMatter
  /\ ~inlinedSkip
  /\ outsideOrCrossing
  /\ IF sei.e >= startLine /\ sei.s > endLine
     THEN /\ pc' = "done"
          /\ i' = i
          /\ visited' = Append(visited, [s |-> sei.s, e |-> sei.e, how |-> "break"])
     ELSE /\ pc' = "loop"
          /\ i' = afterUnit(sei)
          /\ visited' = Append(visited, [s |-> sei.s, e |-> sei.e, how |-> "range"])
  /\ UNCHANGED <<document, targetRange, settings, fm, fenced, jsxExpr, edits, sei,
                 unitOf, resolver>>
  /\ UNCHANGED reflowVars
  /\ UNCHANGED commandVars
  /\ UNCHANGED callVars

\* lines 508-518
EarlierReflowUnit ==
  /\ pc = "resolved"
  /\ ~overlapsFrontMatter
  /\ ~inlinedSkip
  /\ ~outsideOrCrossing
  /\ LET original == getText(document, sei.s, sei.e)
         reflowedText == getReflowedText(document, sei, settings)
     IN IF isEdit(original, reflowedText)
        THEN /\ edits' = Append(edits, [s |-> sei.s, e |-> sei.e, newText |-> reflowedText])
             /\ visited' = Append(visited, [s |-> sei.s, e |-> sei.e, how |-> "edit"])
        ELSE /\ edits' = edits
             /\ visited' = Append(visited, [s |-> sei.s, e |-> sei.e, how |-> "same"])
  /\ i' = afterUnit(sei)
  /\ pc' = "loop"
  /\ UNCHANGED <<document, targetRange, settings, fm, fenced, jsxExpr, sei,
                 unitOf, resolver>>
  /\ UNCHANGED reflowVars
  /\ UNCHANGED commandVars
  /\ UNCHANGED callVars

EarlierNext ==
  \/ Begin
  \/ LoopExit
  \/ SkipFrontMatter
  \/ SkipFenced
  \/ SkipJsx
  \/ ResolveUnit
  \/ EarlierFrontMatterOverlap
  \/ EarlierInlinedSkip
  \/ EarlierRangeSkip
  \/ EarlierReflowUnit

SpecEarlier == Init /\ [][EarlierNext]_vars

\* ------------------------------------------------------------------------
\* shouldSkipParagraph on a unit of list lines with a link
\* ------------------------------------------------------------------------

\* the longest document of list lines the skip policy is run on, in lines
MaxListLinkLines == 3

\* the document, and in sei the unit of it the policy is asked about
ListLinkInit ==
  /\ document \in SeqsUpTo(ListLinkLines, MaxListLinkLines)
  /\ sei \in {r \in {Range(a, b) : a, b \in 0..(lineCount(document) - 1)} : r.s <= r.e}
  /\ targetRange = NoRange
  /\ settings = [preferredLineLength |-> 2, neverReflowFirstParagraph |-> FALSE]
  /\ fm = NoRange
  /\ fenced = <<>>
  /\ jsxExpr = <<>>
  /\ i = 0
  /\ edits = <<>>
  /\ pc = "policy"
  /\ unitOf = <<>>
  /\ resolver = "any"
  /\ visited = <<>>
  /\ reflowIdle
  /\ commandIdle
  /\ callIdle

\* lines 555-568: the context of the unit and shouldSkipParagraph on it;
\* visited keeps what it returned
ApplySkipPolicy ==
  /\ pc = "policy"
  /\ fm' = getFrontMatterRange(document)
  /\ fenced' = getFencedCodeBlockRanges(document)
  /\ jsxExpr' = getJsxExpressionRanges(document, fenced')
  /\ visited' =
       <<[s |-> sei.s, e |-> sei.e,
          how |-> IF shouldSkipParagraph(
                       [document |-> document, lineStart |-> sei.s, lineEnd |-> sei.e,
                        fencedRanges |-> fenced', jsxExprRanges |-> jsxExpr',
                        frontMatterRange |-> fm', settings |-> settings])
                  THEN "policy" ELSE "pass"]>>
  /\ pc' = "policyDone"
  /\ UNCHANGED <<document, targetRange, settings, i, edits, sei, unitOf, resolver>>
  /\ UNCHANGED reflowVars
  /\ UNCHANGED commandVars
  /\ UNCHANGED callVars

ListLinkNext == ApplySkipPolicy

SpecListLink == ListLinkInit /\ [][ListLinkNext]_vars

\* ------------------------------------------------------------------------
\* reflowLines on a unit, and again on its own output
\* ------------------------------------------------------------------------

planIdle ==
  /\ document = <<>>
  /\ targetRange = NoRange
  /\ settings = [preferredLineLength |-> 0, neverReflowFirstParagraph |-> FALSE]
  /\ fm = NoRange
  /\ fenced = <<>>
  /\ jsxExpr = <<>>
  /\ i = 0
  /\ edits = <<>>
  /\ sei = NoRange
  /\ pc = "idle"
  /\ unitOf = <<>>
  /\ resolver = "any"
  /\ visited = <<>>

ReflowInit ==
  /\ unit \in SeqsUpTo(UnitLines, MaxUnitLines)
  /\ preferredLineLength \in 1..MaxWidth
  /\ reflowed = <<>>
  /\ again = <<>>
  /\ phase = "input"
  /\ planIdle
  /\ commandIdle
  /\ callIdle

\* reflowLines(document, startLine, endLine, preferredLineLength) on the unit
ReflowOnce ==
  /\ phase = "input"
  /\ reflowed' = reflowLines(unit, 0, Len(unit) - 1, preferredLineLength)
  /\ phase' = "reflowed"
  /\ UNCHANGED <<unit, preferredLineLength, again>>
  /\ UNCHANGED planVars
  /\ UNCHANGED commandVars
  /\ UNCHANGED callVars

\* reflowLines on the lines it returned, taken as a unit
ReflowAgain ==
  /\ phase = "reflowed"
  /\ reflowed # <<>>
  /\ again' = reflowLines(reflowed, 0, Len(reflowed) - 1, preferredLineLength)
  /\ phase' = "again"
  /\ UNCHANGED <<unit, preferredLineLength, reflowed>>
  /\ UNCHANGED planVars
  /\ UNCHANGED commandVars
  /\ UNCHANGED callVars

ReflowNext ==
  \/ ReflowOnce
  \/ ReflowAgain

SpecReflow == ReflowInit /\ [][ReflowNext]_vars

\* ------------------------------------------------------------------------
\* reflowLines on list and blockquote units
\* ------------------------------------------------------------------------

\* the longest unit of marker lines, in lines
MaxMarkerLines == 2

MarkerInit ==
  /\ unit \in SeqsUpTo(MarkerLines, MaxMarkerLines)
  /\ preferredLineLength \in 1..MaxWidth
  /\ reflowed = <<>>
  /\ again = <<>>
  /\ phase = "input"
  /\ planIdle
  /\ commandIdle
  /\ callIdle

SpecMarkers == MarkerInit /\ [][ReflowNext]_vars

\* ------------------------------------------------------------------------
\* reflowLines on a paragraph of words of several lengths
\* ------------------------------------------------------------------------

\* the most words of the paragraph
MaxWords == 5

\* the largest preferredLineLength for the paragraph
MaxFillWidth == 7

FillWords == {<<"a">>, <<"b", "b">>, <<"c", "c", "c">>}

FillInit ==
  /\ \E ws \in SeqsUpTo(FillWords, MaxWords) : unit = <<join(ws, <<" ">>)>>
  /\ preferredLineLength \in 1..MaxFillWidth
  /\ reflowed = <<>>
  /\ again = <<>>
  /\ phase = "input"
  /\ planIdle
  /\ commandIdle
  /\ callIdle

SpecFill == FillInit /\ [][ReflowNext]_vars

\* ------------------------------------------------------------------------
\* reflowLines on a paragraph of one long line
\* ------------------------------------------------------------------------

\* the length of the line, in characters
SentenceLength == 100

\* the preferredLineLength it is reflowed to
SentenceWidth == 40

\* the longest word of the line
MaxWordLength == 42

\* Is position k (from 1) of the line a space, when its words are w1, w2, w1,
\* w2, ... characters long, one space between two words
isGap(w1, w2, k) ==
  LET r == (k - 1) % (w1 + w2 + 2)
  IN r = w1 \/ r = w1 + w2 + 1

\* the line of SentenceLength characters whose words are w1, w2, w1, ...
\* characters long (the last one as long as is left): words of "a" and words
\* of "b" in turn
sentence(w1, w2) ==
  [k \in 1..SentenceLength |->
     IF isGap(w1, w2, k) THEN " "
     ELSE IF (k - 1) % (w1 + w2 + 2) < w1 THEN "a" ELSE "b"]

SentenceInit ==
  /\ \E w1, w2 \in 1..MaxWordLength :
       /\ ~isGap(w1, w2, SentenceLength)
       /\ unit = <<sentence(w1, w2)>>
  /\ preferredLineLength = SentenceWidth
  /\ reflowed = <<>>
  /\ again = <<>>
  /\ phase = "input"
  /\ planIdle
  /\ commandIdle
  /\ callIdle

SpecSentence == SentenceInit /\ [][ReflowNext]_vars

\* ------------------------------------------------------------------------
\* The range detectors on a document
\* ------------------------------------------------------------------------

\* the longest document the detectors are run on, in lines
MaxRangeLines == 4

RangesInit ==
  /\ document \in SeqsUpTo(RangeLines, MaxRangeLines)
  /\ targetRange = NoRange
  /\ settings = [preferredLineLength |-> 0, neverReflowFirstParagraph |-> FALSE]
  /\ fm = NoRange
  /\ fenced = <<>>
  /\ jsxExpr = <<>>
  /\ i = 0
  /\ edits = <<>>
  /\ sei = NoRange
  /\ pc = "ranges"
  /\ unitOf = <<>>
  /\ resolver = "any"
  /\ visited = <<>>
  /\ reflowIdle
  /\ commandIdle
  /\ callIdle

\* lines 497-499: the three detectors on the document
DetectRanges ==
  /\ pc = "ranges"
  /\ fm' = getFrontMatterRange(document)
  /\ fenced' = getFencedCodeBlockRanges(document)
  /\ jsxExpr' = getJsxExpressionRanges(document, fenced')
  /\ pc' = "rangesDone"
  /\ UNCHANGED <<document, targetRange, settings, i, edits, sei, unitOf, resolver,
                 visited>>
  /\ UNCHANGED reflowVars
  /\ UNCHANGED commandVars
  /\ UNCHANGED callVars

RangesNext == DetectRanges

\* the longest document with inline code the detectors are run on, in lines
MaxInlineLines == 3

InlineInit ==
  /\ document \in SeqsUpTo(InlineLines, MaxInlineLines)
  /\ targetRange = NoRange
  /\ settings = [preferredLineLength |-> 0, neverReflowFirstParagraph |-> FALSE]
  /\ fm = NoRange
  /\ fenced = <<>>
  /\ jsxExpr = <<>>
  /\ i = 0
  /\ edits = <<>>
  /\ sei = NoRange
  /\ pc = "ranges"
  /\ unitOf = <<>>
  /\ resolver = "any"
  /\ visited = <<>>
  /\ reflowIdle
  /\ commandIdle
  /\ callIdle

SpecInline == InlineInit /\ [][RangesNext]_vars

\* the longest document of fence lines the detectors are run on, in lines
MaxFenceLines == 4

FencesInit ==
  /\ document \in SeqsUpTo(FenceLines, MaxFenceLines)
  /\ targetRange = NoRange
  /\ settings = [preferredLineLength |-> 0, neverReflowFirstParagraph |-> FALSE]
  /\ fm = NoRange
  /\ fenced = <<>>
  /\ jsxExpr = <<>>
  /\ i = 0
  /\ edits = <<>>
  /\ sei = NoRange
  /\ pc = "ranges"
  /\ unitOf = <<>>
  /\ resolver = "any"
  /\ visited = <<>>
  /\ reflowIdle
  /\ commandIdle
  /\ callIdle

SpecFences == FencesInit /\ [][RangesNext]_vars

\* the longest document of front matter lines the detectors are run on
MaxFrontMatterLines == 4

FrontMatterInit ==
  /\ document \in SeqsUpTo(FrontMatterLines, MaxFrontMatterLines)
  /\ targetRange = NoRange
  /\ settings = [preferredLineLength |-> 0, neverReflowFirstParagraph |-> FALSE]
  /\ fm = NoRange
  /\ fenced = <<>>
  /\ jsxExpr = <<>>
  /\ i = 0
  /\ edits = <<>>
  /\ sei = NoRange
  /\ pc = "ranges"
  /\ unitOf = <<>>
  /\ resolver = "any"
  /\ visited = <<>>
  /\ reflowIdle
  /\ commandIdle
  /\ callIdle

SpecFrontMatter == FrontMatterInit /\ [][RangesNext]_vars

SpecRanges == RangesInit /\ [][RangesNext]_vars

\* ------------------------------------------------------------------------
\* reflow: the command on the unit at the cursor
\* ------------------------------------------------------------------------

\* the longest document the command is run on, in lines
MaxCommandLines == 2

\* preferredLineLength: as wide as the widest paragraph line of CommandLines
CommandWidths == {4}

\* getSettings: what the configuration holds for the command
CommandSettings ==
  [preferredLineLength : CommandWidths, neverReflowFirstParagraph : BOOLEAN,
   doubleSpaceBetweenSentences : BOOLEAN]

CommandInit ==
  /\ document \in SeqsUpTo(CommandLines, MaxCommandLines)
  /\ position \in 0..(lineCount(document) - 1)
  /\ settings \in CommandSettings
  /\ targetRange = NoRange
  /\ fm = NoRange
  /\ fenced = <<>>
  /\ jsxExpr = <<>>
  /\ i = 0
  /\ edits = <<>>
  /\ sei = NoRange
  /\ pc = "reflow"
  /\ unitOf = [k \in 0..(lineCount(document) - 1) |-> NoRange]
  /\ resolver = "any"
  /\ visited = <<>>
  /\ reflowIdle
  /\ callIdle

\* lines 414-431: the returns of reflow before the unit is resolved
reflowChecks ==
  /\ pc = "reflow"
  /\ LET fmr == getFrontMatterRange(document)
     IN /\ fm' = fmr
        /\ IF fmr # NoRange /\ fmr.s <= position /\ position <= fmr.e
           THEN /\ pc' = "reflowDone"
                /\ UNCHANGED <<fenced, jsxExpr>>
           ELSE /\ fenced' = getFencedCodeBlockRanges(document)
                /\ jsxExpr' = getJsxExpressionRanges(document, fenced')
                /\ pc' = IF \/ findRangeContainingLine(fenced', position) # NoRange
                            \/ findRangeContainingLine(jsxExpr', position) # NoRange
                            \/ testLine(ATX_HEADING_RE, AtxHeadingLines,
                                        lineAt(document, position))
                         THEN "reflowDone" ELSE "reflowChecked"
  /\ UNCHANGED <<document, targetRange, settings, i, edits, sei, unitOf, resolver,
                 visited>>
  /\ UNCHANGED reflowVars
  /\ UNCHANGED commandVars
  /\ UNCHANGED callVars

\* GetStartEndInfo (lines 589-607): the extent of the unit at the cursor; the
\* resolver answers as well for the first content line, which
\* shouldSkipParagraph asks for when neverReflowFirstParagraph is set
reflowGetStartEndInfo ==
  /\ pc = "reflowChecked"
  /\ LET first == firstContentLine(document)
         needFirst == settings.neverReflowFirstParagraph /\ first < lineCount(document)
     IN \E r \in extentsAt(position) :
          \E f \in (IF ~needFirst THEN {NoRange}
                    ELSE IF first = position THEN {r} ELSE extentsAt(first)) :
            /\ sei' = r
            /\ unitOf' = IF needFirst
                         THEN [answered(position, r) EXCEPT ![first] = f]
                         ELSE answered(position, r)
  /\ pc' = "reflowResolved"
  /\ UNCHANGED <<document, targetRange, settings, fm, fenced, jsxExpr, i, edits,
                 resolver, visited>>
  /\ UNCHANGED reflowVars
  /\ UNCHANGED commandVars
  /\ UNCHANGED callVars

\* lines 437-449
reflowSkip ==
  /\ pc = "reflowResolved"
  /\ shouldSkipParagraph(skipContext)
  /\ pc' = "reflowDone"
  /\ UNCHANGED <<document, targetRange, settings, fm, fenced, jsxExpr, i, edits, sei,
                 unitOf, resolver, visited>>
  /\ UNCHANGED reflowVars
  /\ UNCHANGED commandVars
  /\ UNCHANGED callVars

\* lines 451-454: the unit is replaced by the lines of reflowLines, joined
reflowApply ==
  /\ pc = "reflowResolved"
  /\ ~shouldSkipParagraph(skipContext)
  /\ LET reflowedLines ==
           reflowLines(document, sei.s, sei.e, settings.preferredLineLength)
     IN edits' = <<[s |-> sei.s, e |-> sei.e, newText |-> join(reflowedLines, <<"\n">>)]>>
  /\ pc' = "reflowDone"
  /\ UNCHANGED <<document, targetRange, settings, fm, fenced, jsxExpr, i, sei,
                 unitOf, resolver, visited>>
  /\ UNCHANGED reflowVars
  /\ UNCHANGED commandVars
  /\ UNCHANGED callVars

CommandNext ==
  \/ reflowChecks
  \/ reflowGetStartEndInfo
  \/ reflowSkip
  \/ reflowApply

SpecCommand == CommandInit /\ [][CommandNext]_vars

\* ------------------------------------------------------------------------
\* Properties of reflowLines
\* ------------------------------------------------------------------------

\* the pieces of a split that are words
RECURSIVE nonEmpty(_)
nonEmpty(strs) ==
  IF strs = <<>> THEN <<>>
  ELSE IF strs[1] = <<>> THEN nonEmpty(Tail(strs))
  ELSE <<strs[1]>> \o nonEmpty(Tail(strs))

\* line k of lines without the list marker of a first line and without the
\* blockquote marker that begins a line
withoutMarker(lines, k) ==
  LET c == getLineContext(lines[k])
  IN IF (k = 1 /\ c.type = "list") \/ c.type = "blockquote" THEN c.content
     ELSE lines[k]

\* the whitespace-separated words of lines k.. of lines, markers left out
RECURSIVE proseWordsFrom(_, _)
proseWordsFrom(lines, k) ==
  IF k > Len(lines) THEN <<>>
  ELSE nonEmpty(split(withoutMarker(lines, k))) \o proseWordsFrom(lines, k + 1)

proseWords(lines) == proseWordsFrom(lines, 1)

\* C2: the words of the output of reflowLines are the words of the unit, in
\* the same order, none added, dropped or duplicated (the list marker of the
\* first line and the blockquote markers that begin lines left aside).
C2_ContentPreserved ==
  phase \in {"reflowed", "again"} => proseWords(reflowed) = proseWords(unit)

\* the effective width of the unit: preferredLineLength less the indent and,
\* when there is a prefix, the prefix and one space
effectiveWidth ==
  LET c == getLineContext(unit[1])
  IN preferredLineLength - Len(c.indent)
       - (IF c.prefix # <<>> THEN Len(c.prefix) + 1 ELSE 0)

\* the content of an output line of the unit: the line after indent and prefix
contentOf(line) == restFrom(line, preferredLineLength - effectiveWidth + 1)

isOneWord(text) == text # <<>> /\ \A k \in DOMAIN text : text[k] \notin WS

\* C3: every output line of reflowLines, indent and prefix included, is at
\* most preferredLineLength long, unless its content is one word that is
\* longer than the effective width, alone on its line; also when the
\* effective width is zero or less.
C3_WidthBound ==
  phase \in {"reflowed", "again"} =>
    \A k \in DOMAIN reflowed :
      \/ Len(reflowed[k]) <= preferredLineLength
      \/ /\ isOneWord(contentOf(reflowed[k]))
         /\ Len(contentOf(reflowed[k])) > effectiveWidth

\* C3 witness: a unit reflowed into a line of two words that fills the
\* width and a line of one word that is longer than the width
C3_Witness ==
  /\ phase = "reflowed"
  /\ \E k \in DOMAIN reflowed :
       /\ Len(reflowed[k]) = preferredLineLength
       /\ ~isOneWord(contentOf(reflowed[k]))
  /\ \E k \in DOMAIN reflowed : Len(reflowed[k]) > preferredLineLength

\* C4: reflowLines on its own output, with the same preferredLineLength,
\* returns that output.
C4_Idempotent == phase = "again" => again = reflowed

\* what begins output line k (from 1) of a unit whose first line has the
\* context c: the indent, then the prefix and a space, or as many spaces on
\* the later lines of a list unit
leadOf(c, k) ==
  IF c.type = "list"
  THEN IF k = 1 THEN c.indent \o c.prefix \o <<" ">>
       ELSE c.indent \o spaces(Len(c.prefix) + 1)
  ELSE IF c.type = "blockquote" THEN c.indent \o c.prefix \o <<" ">>
  ELSE c.indent

\* line is lead followed by a content that begins with a character of a word
beginsWith(line, lead) ==
  /\ Len(line) > Len(lead)
  /\ SubSeq(line, 1, Len(lead)) = lead
  /\ line[Len(lead) + 1] \notin WS

\* C11: the classification of the first line of the unit decides what
\* begins each output line of reflowLines: for a list unit the indent, the
\* prefix and one space on the first line and the indent and
\* len(prefix) + 1 spaces on every later line; for a blockquote unit the
\* indent, the prefix and one space on every line; for a paragraph unit the
\* indent; the content follows at once.
C11_PrefixReattached ==
  phase \in {"reflowed", "again"} =>
    \A k \in DOMAIN reflowed :
      beginsWith(reflowed[k], leadOf(getLineContext(unit[1]), k))

\* C11 witness: a list unit with the prefix "-" reflowed into two lines or
\* more, the second one indented by two spaces
C11_Witness ==
  /\ phase = "reflowed"
  /\ getLineContext(unit[1]).type = "list"
  /\ getLineContext(unit[1]).prefix = <<"-">>
  /\ getLineContext(unit[1]).indent = <<>>
  /\ Len(reflowed) >= 2
  /\ beginsWith(reflowed[2], <<" ", " ">>)

\* every word of the one line of the unit fits the width
wordsFit == \A n \in DOMAIN proseWords(unit) : Len(proseWords(unit)[n]) <= SentenceWidth

inRange(k, r) == r # NoRange /\ r.s <= k /\ k <= r.e

\* line k is in the front matter, a fenced code range or a brace expression
inStructure(k) ==
  \/ inRange(k, fm)
  \/ \E n \in DOMAIN fenced : inRange(k, fenced[n])
  \/ \E n \in DOMAIN jsxExpr : inRange(k, jsxExpr[n])

overlaps(a, b) == ~(a.e < b.s \/ a.s > b.e)

\* C1: no edit of computeReflowEdits spans a line of the front matter, of a
\* fenced code range or of a brace expression range, whatever the extents the
\* resolver answers.
C1_StructureImmune ==
  \A n \in DOMAIN edits : \A k \in edits[n].s..edits[n].e : ~inStructure(k)

\* C1 witness: a finished pass that pushed an edit and skipped a unit that
\* reaches into a fenced range or a brace expression
C1_Witness ==
  /\ pc = "done"
  /\ edits # <<>>
  /\ \E n \in DOMAIN visited :
       /\ visited[n].how = "policy"
       /\ \E k \in visited[n].s..visited[n].e : inStructure(k)

\* C5: every iteration of the loop of computeReflowEdits moves the cursor
\* strictly forward, whichever branch it takes (the front matter, fence and
\* brace jumps, the range skip, the policy skip, the reflow), and never past
\* the line count: the loop runs at most lineCount(document) + 1 times.
C5_Terminates ==
  [][(pc \in {"loop", "resolved"} /\ pc' = "loop")
       => (i' > i /\ i' <= lineCount(document))]_vars

\* C5 witness: a finished pass whose loop jumped a structural range and
\* went through two units
C5_Witness ==
  /\ pc = "done"
  /\ Len(visited) >= 2
  /\ \E k \in startLine..endLine : inStructure(k)

\* C6: the extents resolved in one pass are pairwise disjoint, they cover
\* every line of the requested range that is not in a structural range, and
\* the edits are pairwise disjoint and in ascending order of lines.
C6_Partition ==
  /\ \A a, b \in DOMAIN visited : a < b => visited[a].e < visited[b].s
  /\ \A a, b \in DOMAIN edits : a < b => edits[a].e < edits[b].s
  /\ pc = "done" =>
       \A k \in startLine..endLine :
         \/ inStructure(k)
         \/ \E n \in DOMAIN visited : inRange(k, visited[n])

\* line k comes before the front matter: a blank line above its opener
beforeFrontMatter(k) == fm # NoRange /\ k < fm.s

\* C6 as amended: the extents resolved in one pass are pairwise disjoint, the
\* edits are pairwise disjoint and in ascending order of lines, and the
\* extents cover every line of the requested range that is not in a
\* structural range and, in a pass over the whole document, not above the
\* front matter.
C6_PartitionAfterFrontMatter ==
  /\ \A a, b \in DOMAIN visited : a < b => visited[a].e < visited[b].s
  /\ \A a, b \in DOMAIN edits : a < b => edits[a].e < edits[b].s
  /\ pc = "done" =>
       \A k \in startLine..endLine :
         \/ inStructure(k)
         \/ ~hasRange /\ beforeFrontMatter(k)
         \/ \E n \in DOMAIN visited : inRange(k, visited[n])

\* C6 witness: a finished pass with two edits around a jumped range
C6_Witness ==
  /\ pc = "done"
  /\ Len(edits) >= 2
  /\ \E k \in startLine..endLine :
       /\ inStructure(k)
       /\ edits[1].e < k
       /\ k < edits[2].s

\* C7: in range mode every edit lies within the lines of the target range; a
\* unit that crosses a boundary of the range is passed without an edit, and
\* only such units are.
C7_WithinRange ==
  hasRange =>
    /\ \A n \in DOMAIN edits : startLine <= edits[n].s /\ edits[n].e <= endLine
    /\ \A n \in DOMAIN visited :
         (visited[n].s < startLine \/ visited[n].e > endLine)
           <=> visited[n].how \in {"range", "break"}

\* C7 witness: a finished pass over a range that passed a unit crossing a
\* boundary of the range and pushed an edit for a unit within the range
C7_Witness ==
  /\ pc = "done"
  /\ hasRange
  /\ edits # <<>>
  /\ \E n \in DOMAIN visited : visited[n].how = "range"

\* C8: an edit is pushed only for a unit whose reflowed text differs from the
\* text of its lines; a pass in which no unit differs returns no edit.
C8_OnlyRealEdits ==
  /\ \A n \in DOMAIN edits :
       edits[n].newText # getText(document, edits[n].s, edits[n].e)
  /\ (\A n \in DOMAIN visited : visited[n].how # "edit") => edits = <<>>

\* C8 witness: a finished pass that reflowed a unit into its own text and
\* pushed no edit for it, and pushed an edit for another unit
C8_Witness ==
  /\ pc = "done"
  /\ edits # <<>>
  /\ \E n \in DOMAIN visited : visited[n].how = "same"

\* the line is one of the triggers of the skip policy that skip every unit
\* they are in
isTrigger(text) ==
  \/ testLine(ATX_HEADING_RE, AtxHeadingLines, text)
  \/ testLine(MDX_IMPORT_RE, MdxImportLines, text)
  \/ testLine(MD_TABLE_ROW_RE, TableRowLines, text)
  \/ testLine(MD_TABLE_SEPARATOR_RE, TableSeparatorLines, text)
  \/ testLine(FOOTNOTE_DEF_RE, FootnoteDefLines, text)
  \/ testLine(LIST_LINK_ONLY_RE, ListLinkOnlyLines, text)

\* the unit with extent r holds a trigger line, or is one line that starts
\* with three colons
hasTrigger(r) ==
  \/ \E k \in r.s..r.e : isTrigger(lineAt(document, k))
  \/ r.s = r.e /\ testLine(TRIPLE_COLON_RE, TripleColonLines, lineAt(document, r.s))

otherSkip(r) ==
  LET ctx == [document |-> document, lineStart |-> r.s, lineEnd |-> r.e,
              fencedRanges |-> fenced, jsxExprRanges |-> jsxExpr,
              frontMatterRange |-> fm, settings |-> settings]
  IN \/ skipFrontMatter(ctx)
     \/ skipFencedOrJsx(ctx)
     \/ hasTrigger(r)
     \/ skipXmlTagOnly(ctx)

\* the extent of the first content paragraph: the unit at the first line
\* after the front matter that is neither blank nor an import
firstContentUnit == getFirstContentParagraphRange(document)

\* C10: with neverReflowFirstParagraph no edit overlaps the first content
\* unit, and the rule skips no unit that does not overlap it; without the
\* option the rule skips nothing.
C10_FirstParagraph ==
  /\ (settings.neverReflowFirstParagraph /\ pc \notin {"start", "idle"}
        /\ firstContentUnit # NoRange) =>
       \A n \in DOMAIN edits : ~overlaps(edits[n], firstContentUnit)
  /\ \A n \in DOMAIN visited :
       (visited[n].how = "policy" /\ ~otherSkip(visited[n])) =>
         /\ settings.neverReflowFirstParagraph
         /\ firstContentUnit # NoRange
         /\ overlaps(visited[n], firstContentUnit)

\* C10 witness: a finished pass with the option set that skipped the first
\* content unit for this rule alone and pushed an edit for a later unit
C10_Witness ==
  /\ pc = "done"
  /\ settings.neverReflowFirstParagraph
  /\ \E n \in DOMAIN visited :
       /\ visited[n].how = "policy"
       /\ ~otherSkip(visited[n])
       /\ \E m \in DOMAIN edits : edits[m].s > visited[n].e

\* line q closes the fence that line p opens: the same fence character, at
\* least as many of them, nothing else but white space
closesFence(doc, p, q) ==
  LET text == lineAt(doc, p)
      lead == runLength(text, 1, WS)
      ch == text[lead + 1]
  IN Test(closeRe(ch, runLength(text, lead + 1, {ch})), lineAt(doc, q))

\* line o opens a fenced block: it is a fence line, and every block opened
\* above it is closed above it
RECURSIVE opensFence(_, _)
opensFence(doc, o) ==
  /\ testLine(openRe, OpenFenceLines, lineAt(doc, o))
  /\ \A p \in 0..(o - 1) :
       opensFence(doc, p) => \E q \in (p + 1)..(o - 1) : closesFence(doc, p, q)

\* the lines that open a fenced block no later line closes
unterminatedFences(doc) ==
  {o \in 0..(lineCount(doc) - 1) :
     /\ opensFence(doc, o)
     /\ ~\E q \in (o + 1)..(lineCount(doc) - 1) : closesFence(doc, o, q)}

\* the lines that open a front matter no later line closes: the first line
\* that is not blank, when it is --- or +++
unterminatedFrontMatter(doc) ==
  {k \in 0..(lineCount(doc) - 1) :
     /\ \A j \in 0..(k - 1) : isEmptyOrWhitespace(lineAt(doc, j))
     /\ \/ /\ testLine(isYamlRe, YamlLines, lineAt(doc, k))
           /\ ~\E q \in (k + 1)..(lineCount(doc) - 1) :
                 testLine(closingYamlRe, ClosingYamlLines, lineAt(doc, q))
        \/ /\ testLine(isTomlRe, TomlLines, lineAt(doc, k))
           /\ ~\E q \in (k + 1)..(lineCount(doc) - 1) :
                 testLine(isTomlRe, TomlLines, lineAt(doc, q))}

\* C12: a front matter that is opened and never closed is a range that ends
\* at the last line, a fenced block that is opened and never closed is a
\* range from its opener to the last line, and a pass over the whole document
\* has no edit at or after the opener.
C12_UnterminatedToEnd ==
  pc \in {"loop", "resolved", "done"} =>
    /\ \A k \in unterminatedFrontMatter(document) :
         /\ fm = Range(k, lineCount(document) - 1)
         /\ ~hasRange => \A n \in DOMAIN edits : edits[n].e < k
    /\ \A o \in unterminatedFences(document) :
         /\ \E n \in DOMAIN fenced : fenced[n] = Range(o, lineCount(document) - 1)
         /\ ~hasRange => \A n \in DOMAIN edits : edits[n].e < o

\* C12 witness: a pass over the whole of a document that ends in a fenced
\* block left open, finished with an edit above the opener
C12_Witness ==
  /\ pc = "done"
  /\ ~hasRange
  /\ edits # <<>>
  /\ \E o \in unterminatedFences(document) : o > 0 /\ o < lineCount(document) - 1

\* ------------------------------------------------------------------------
\* Properties of reflow
\* ------------------------------------------------------------------------

\* the punctuation that ends a sentence
SentenceEnd == {".", "!", "?"}

\* C13: in the text the reflow command puts in place of the unit, a word
\* that ends in sentence punctuation is parted from the next word of its
\* line by two spaces when doubleSpaceBetweenSentences is set, by one when it
\* is not.
C13_DoubleSpace ==
  (pc = "reflowDone" /\ edits # <<>>) =>
    LET text == edits[1].newText
    IN \A k \in 1..(Len(text) - 1) :
         (text[k] \in SentenceEnd /\ text[k + 1] = " ") =>
           runLength(text, k + 1, {" "}) =
             (IF settings.doubleSpaceBetweenSentences THEN 2 ELSE 1)

\* is line k of doc in the front matter, a fenced block or a brace range
inStructureOf(doc, k) ==
  LET fmr == getFrontMatterRange(doc)
      f == getFencedCodeBlockRanges(doc)
  IN \/ fmr # NoRange /\ fmr.s <= k /\ k <= fmr.e
     \/ findRangeContainingLine(f, k) # NoRange
     \/ findRangeContainingLine(getJsxExpressionRanges(doc, f), k) # NoRange

\* C19: the reflow command applies no edit when the line of the cursor is a
\* line of one XML tag or HTML comment, is in the front matter, a fenced
\* block or a brace range, or is a heading line, whatever the extent of the
\* unit at the cursor.
C19_CursorLineSkips ==
  (/\ pc = "reflowDone"
   /\ \/ lineIsXmlTagOnly(lineAt(document, position))
      \/ inStructureOf(document, position)
      \/ testLine(ATX_HEADING_RE, AtxHeadingLines, lineAt(document, position)))
  => edits = <<>>

\* ------------------------------------------------------------------------
\* Properties of successive invocations
\* ------------------------------------------------------------------------

\* no test of an imported expression reads or moves the position of the
\* expression object: whatever lastIndex it holds, the test answers as a
\* match from the start of the text does and leaves lastIndex as it was
RegexTestsStateless ==
  \A n \in ImportedRegexes : \A text \in KnownLines : \A li \in 0..(Len(text) + 1) :
    regExpTest(n, li, text) =
      [found |-> testLine(regexOf(n), hitsOf(n), text), lastIndex |-> li]

RECURSIVE outsideInline(_, _, _)
outsideInline(text, p, run) ==
  IF p > Len(text) THEN <<>>
  ELSE IF text[p] = BACKTICK
  THEN LET n == runLength(text, p, {BACKTICK})
       IN outsideInline(text, p + n, IF run = 0 THEN n ELSE IF n >= run THEN 0 ELSE run)
  ELSE (IF run = 0 THEN <<text[p]>> ELSE <<>>) \o outsideInline(text, p + 1, run)

\* the brace depth after the characters chars, d being the one before:
\* one up with each "{", one down with each "}", never below 0
RECURSIVE depthAfter(_, _)
depthAfter(chars, d) ==
  IF chars = <<>> THEN d
  ELSE depthAfter(Tail(chars),
                  IF chars[1] = "{" THEN d + 1
                  ELSE IF chars[1] = "}" /\ d > 0 THEN d - 1
                  ELSE d)

isFenced(k) == \E n \in DOMAIN fenced : fenced[n].s <= k /\ k <= fenced[n].e

\* the brace depth at the start of line k: the depth carries over from line to
\* line, the lines of the fenced blocks left out
RECURSIVE depthAtStart(_)
depthAtStart(k) ==
  IF k = 0 THEN 0
  ELSE IF isFenced(k - 1) THEN depthAtStart(k - 1)
  ELSE depthAfter(outsideInline(lineAt(document, k - 1), 1, 0), depthAtStart(k - 1))

\* line k is inside an expression
insideExpression(k) ==
  /\ ~isFenced(k)
  /\ \/ depthAtStart(k) > 0
     \/ \E n \in DOMAIN outsideInline(lineAt(document, k), 1, 0) :
          outsideInline(lineAt(document, k), 1, 0)[n] = "{"

\* the maximal runs of lines inside an expression
expressionRuns ==
  {r \in {Range(a, b) : a, b \in 0..(lineCount(document) - 1)} :
     /\ r.s <= r.e
     /\ \A k \in r.s..r.e : insideExpression(k)
     /\ r.s = 0 \/ ~insideExpression(r.s - 1)
     /\ r.e = lineCount(document) - 1 \/ ~insideExpression(r.e + 1)}

\* C16 as stated: when a "{" is open where a fenced block begins, the
\* expression range ends at the line before the block and the depth is 0
\* after the block: the line after the block, when it has no "{", is in no
\* brace range.
C16_FenceClosesDepth ==
  pc = "rangesDone" =>
    \A n \in DOMAIN fenced :
      (fenced[n].s > 0 /\ insideExpression(fenced[n].s - 1) /\ depthAtStart(fenced[n].s) > 0) =>
        /\ \E m \in DOMAIN jsxExpr : jsxExpr[m].e = fenced[n].s - 1
        /\ \A k \in 0..(lineCount(document) - 1) :
             (k = fenced[n].e + 1 /\ \A q \in DOMAIN lineAt(document, k) :
                                       lineAt(document, k)[q] # "{")
               => findRangeContainingLine(jsxExpr, k) = NoRange

\* two ranges share no line
disjoint(a, b) == a.e < b.s \/ b.e < a.s

\* C17 as stated: the front matter range, the fenced ranges and the brace
\* ranges of a document are disjoint, each from every other.
C17_RangesDisjoint ==
  pc = "rangesDone" =>
    /\ \A n, m \in DOMAIN fenced : n # m => disjoint(fenced[n], fenced[m])
    /\ \A n, m \in DOMAIN jsxExpr : n # m => disjoint(jsxExpr[n], jsxExpr[m])
    /\ \A n \in DOMAIN fenced : \A m \in DOMAIN jsxExpr : disjoint(fenced[n], jsxExpr[m])
    /\ fm # NoRange =>
         /\ \A n \in DOMAIN fenced : disjoint(fm, fenced[n])
         /\ \A m \in DOMAIN jsxExpr : disjoint(fm, jsxExpr[m])

\* C20: the brace ranges are the maximal runs of lines inside an expression,
\* in the order of the lines; a line outside the fenced blocks is inside an
\* expression when the depth is positive at its start or it has a "{"
\* outside inline code.
C20_ExpressionRuns ==
  pc = "rangesDone" =>
    /\ {jsxExpr[n] : n \in DOMAIN jsxExpr} = expressionRuns
    /\ \A n \in 1..(Len(jsxExpr) - 1) : jsxExpr[n].e < jsxExpr[n + 1].s

\* C20 witness: a document with a "}" at depth 0, a run that a fenced block
\* cuts in two, and a run open at the last line
C20_Witness ==
  /\ pc = "rangesDone"
  /\ Len(jsxExpr) >= 2
  /\ \E n \in DOMAIN fenced : \E a, b \in DOMAIN jsxExpr :
       jsxExpr[a].e = fenced[n].s - 1 /\ jsxExpr[b].s = fenced[n].e + 1
  /\ jsxExpr[Len(jsxExpr)].e = lineCount(document) - 1
  /\ depthAtStart(lineCount(document) - 1) > 0

\* ------------------------------------------------------------------------
\* Properties of the earlier revision of computeReflowEdits
\* ------------------------------------------------------------------------

\* C18 as stated: every iteration of the loop of the earlier revision moves
\* the cursor to a later line, the one that finds the unit overlapping the
\* front matter included.
C18_EarlierCursorIncreases ==
  [][(pc \in {"loop", "resolved"} /\ pc' = "loop") => i' > i]_vars

\* the positions of text at which a run of backticks begins
tickRuns(text) ==
  {p \in DOMAIN text : text[p] = BACKTICK /\ (p = 1 \/ text[p - 1] # BACKTICK)}

\* The inline code spans of text from position p on, by runs: the first run
\* opens a span, which the first later run at least as long closes; with no
\* such run the span ends with the line.  The next span is looked for after
\* the closing run.
RECURSIVE codeSpansFrom(_, _)
codeSpansFrom(text, p) ==
  LET from == {o \in tickRuns(text) : o >= p}
  IN IF from = {} THEN {}
     ELSE LET o == Min(from)
              n == runLength(text, o, {BACKTICK})
              closers == {q \in tickRuns(text) :
                            q > o /\ runLength(text, q, {BACKTICK}) >= n}
          IN IF closers = {} THEN {[from |-> o, to |-> Len(text)]}
             ELSE LET q == Min(closers)
                      end == q + runLength(text, q, {BACKTICK}) - 1
                  IN {[from |-> o, to |-> end]} \cup codeSpansFrom(text, end + 1)

\* text with every character of an inline code span blanked
codeBlanked(text) ==
  [p \in DOMAIN text |->
     IF \E s \in codeSpansFrom(text, 1) : s.from <= p /\ p <= s.to THEN "_" ELSE text[p]]

\* the brace depth at the start of line k, the braces of the inline code
\* spans of each line left out
RECURSIVE depthBefore(_)
depthBefore(k) ==
  IF k = 0 THEN 0
  ELSE IF isFenced(k - 1) THEN depthBefore(k - 1)
  ELSE depthAfter(codeBlanked(lineAt(document, k - 1)), depthBefore(k - 1))

\* C21: a run of n backticks opens inline code that only a later run of at
\* least n backticks of the same line closes; the braces inside it change
\* neither the depth nor whether the line is inside an expression; the
\* inline code ends with its line.  So a line is in a brace range exactly
\* when the depth left by the braces outside the spans of the lines before
\* it is positive or it has a "{" outside its own spans.
C21_InlineCode ==
  pc = "rangesDone" =>
    \A k \in 0..(lineCount(document) - 1) :
      ~isFenced(k) =>
        (findRangeContainingLine(jsxExpr, k) # NoRange
           <=> \/ depthBefore(k) > 0
               \/ \E p \in DOMAIN lineAt(document, k) :
                    codeBlanked(lineAt(document, k))[p] = "{")

\* C21 witness: a line whose span, opened by two backticks, holds a brace
\* after a run of one backtick and is in no range, and a line with a span
\* left open before a line whose "{" puts it in a range
C21_Witness ==
  /\ pc = "rangesDone"
  /\ \E k \in 0..(lineCount(document) - 1) :
       /\ lineAt(document, k) = <<BACKTICK, BACKTICK, "{", BACKTICK, "{">>
       /\ findRangeContainingLine(jsxExpr, k) = NoRange
  /\ \E k \in 0..(lineCount(document) - 2) :
       /\ lineAt(document, k) = <<BACKTICK, "{">>
       /\ findRangeContainingLine(jsxExpr, k) = NoRange
       /\ lineAt(document, k + 1) = <<"{">>
       /\ findRangeContainingLine(jsxExpr, k + 1) = Range(k + 1, lineCount(document) - 1)

\* the fence of text: after at most 3 white space characters, a run of at
\* least 3 backticks or of at least 3 tildes; len = 0 when text has none
fenceOf(text) ==
  LET lead == runLength(text, 1, WS)
      ch == IF lead < Len(text) THEN text[lead + 1] ELSE ""
      len == IF ch \in {BACKTICK, "~"} THEN runLength(text, lead + 1, {ch}) ELSE 0
  IN IF lead <= 3 /\ len >= 3
     THEN [ch |-> ch, len |-> len, nothingElse |-> \A p \in (lead + len + 1)..Len(text) : text[p] \in WS]
     ELSE [ch |-> "", len |-> 0, nothingElse |-> FALSE]

\* The fenced blocks of doc from line from on: the first fence line opens a
\* block, the first later line that is a fence of the same character, at
\* least as long, with nothing else but white space, closes it; the next
\* block is looked for after the closing line.
RECURSIVE blocksFrom(_, _)
blocksFrom(doc, from) ==
  LET openers == {o \in from..(lineCount(doc) - 1) : fenceOf(lineAt(doc, o)).len > 0}
  IN IF openers = {} THEN <<>>
     ELSE LET o == Min(openers)
              f == fenceOf(lineAt(doc, o))
              closers == {q \in (o + 1)..(lineCount(doc) - 1) :
                            LET g == fenceOf(lineAt(doc, q))
                            IN g.ch = f.ch /\ g.len >= f.len /\ g.nothingElse}
          IN IF closers = {} THEN <<Range(o, lineCount(doc) - 1)>>
             ELSE <<Range(o, Min(closers))>> \o blocksFrom(doc, Min(closers) + 1)

\* C22: the fenced ranges are the blocks of the document: each closes at
\* the first later line of at most 3 white space characters, at least as
\* many of the opener's fence character and white space only after them;
\* no line inside a block opens one, and the next block is looked for from
\* the line after the closing one.
C22_FenceCloses ==
  pc = "rangesDone" => fenced = blocksFrom(document, 0)

\* C22 witness: a block of four backticks that lines of three backticks, of
\* tildes, of a fence after 4 spaces or before text do not close, closed
\* by a later line, and a second block after it
C22_Witness ==
  /\ pc = "rangesDone"
  /\ Len(fenced) = 2
  /\ fenced[1].e > fenced[1].s + 1
  /\ fenceOf(lineAt(document, fenced[1].s + 1)).len > 0
  /\ fenced[2].s = fenced[1].e + 1

\* the characters of a front matter delimiter line, its white space left out
delimiterOf(text) == SelectSeq(text, LAMBDA ch : ch \notin WS)

\* C23 as stated: a front matter range begins at line 0, also in a buffer
\* that begins with blank lines.
C23_AnchoredAtLineZero ==
  pc = "rangesDone" => (fm # NoRange => fm.s = 0)

\* C23, amended: a front matter range begins at the first line of the
\* buffer that is not blank, which is a --- or +++ line; it is line 0 when
\* the buffer does not begin with a blank line.
C23_AnchoredAtFirstNonBlank ==
  pc = "rangesDone" =>
    (fm # NoRange =>
       /\ 0 <= fm.s
       /\ fm.s <= fm.e
       /\ fm.e <= lineCount(document) - 1
       /\ \A k \in 0..(fm.s - 1) : isEmptyOrWhitespace(lineAt(document, k))
       /\ delimiterOf(lineAt(document, fm.s)) \in {<<"-", "-", "-">>, <<"+", "+", "+">>}
       /\ ~isEmptyOrWhitespace(lineAt(document, 0)) => fm.s = 0)

\* C23 witness: a front matter range below blank lines
C23_Witness ==
  /\ pc = "rangesDone"
  /\ fm # NoRange
  /\ fm.s > 0
  /\ fm.e < lineCount(document) - 1

\* ------------------------------------------------------------------------
\* Properties of the skip policy on list lines
\* ------------------------------------------------------------------------

\* content is one link, [text](url), and nothing else
isOnlyLink(content) ==
  /\ Len(content) >= 4
  /\ content[1] = "["
  /\ content[Len(content)] = ")"
  /\ \E p \in 2..(Len(content) - 2) :
       /\ content[p] = "]"
       /\ content[p + 1] = "("
       /\ \A q \in 2..(p - 1) : content[q] # "]"
       /\ \A q \in (p + 2)..(Len(content) - 1) : content[q] # ")"

\* text is a list item, with one of the markers, whose content is one link
isListLinkLine(text, markers) ==
  LET context == getLineContext(text)
  IN /\ context.type = "list"
     /\ context.prefix[1] \in markers
     /\ isOnlyLink(trim(context.content))

\* the unit that holds a list item of one of the markers whose content is
\* one link is one shouldSkipParagraph returns true for
listLinkSkipped(markers) ==
  pc = "policyDone" =>
    ((\E k \in sei.s..sei.e : isListLinkLine(lineAt(document, k), markers)) =>
       visited[1].how = "policy")

\* C24 as stated: shouldSkipParagraph returns true for a unit with a list
\* item, of any marker of the classifier (-, *, + or a number and a full
\* stop), whose content is one link.
C24_ListLinkSkipped == listLinkSkipped({"-", "*", "+"} \cup DIGITS)

\* C24, amended: shouldSkipParagraph returns true for a unit with a list
\* item of marker - or * whose content is one link.
C24_DashStarLinkSkipped == listLinkSkipped({"-", "*"})

\* C24 witness: a unit of two lines skipped for the link-only item of
\* marker * on its second line
C24_Witness ==
  /\ pc = "policyDone"
  /\ visited[1].how = "policy"
  /\ sei.e = sei.s + 1
  /\ lineAt(document, sei.s) = PlainLine
  /\ isListLinkLine(lineAt(document, sei.e), {"*"})

\* ------------------------------------------------------------------------
\* Properties of the fill of reflowLines
\* ------------------------------------------------------------------------

\* the contents of the output lines of the unit
contents == [k \in DOMAIN reflowed |-> contentOf(reflowed[k])]

\* text is words with one space between them, and no other white space
singleSpaced(text) ==
  /\ text # <<>>
  /\ text[1] \notin WS
  /\ text[Len(text)] \notin WS
  /\ \A p \in DOMAIN text : text[p] \in WS => (text[p] = " " /\ text[p + 1] \notin WS)

\* the first word of a text that begins with one
firstWordOf(text) ==
  SubSeq(text, 1, Min({q \in DOMAIN text : text[q] \in WS} \cup {Len(text) + 1}) - 1)

\* C25: the output of reflowLines is the greedy fill of the words of the
\* unit: the contents of the output lines, put one after the other, are the
\* words in their order with one space between them; a line of two words or
\* more is no longer than the effective width; and the content of a line,
\* a space and the first word of the next line are longer than the
\* effective width.
C25_GreedyFill ==
  phase \in {"reflowed", "again"} =>
    /\ join(contents, <<" ">>) = join(unitWords(unit, 0, Len(unit) - 1), <<" ">>)
    /\ \A k \in DOMAIN contents :
         /\ singleSpaced(contents[k])
         /\ ~isOneWord(contents[k]) => Len(contents[k]) <= effectiveWidth
    /\ \A k \in 1..(Len(contents) - 1) :
         Len(contents[k]) + 1 + Len(firstWordOf(contents[k + 1])) > effectiveWidth

\* C25 witness: a unit reflowed into a line of two words as long as the
\* effective width and a line after it
C25_Witness ==
  /\ phase = "reflowed"
  /\ Len(contents) >= 2
  /\ ~isOneWord(contents[1])
  /\ Len(contents[1]) = effectiveWidth

\* ------------------------------------------------------------------------
\* Properties of the edit of reflow
\* ------------------------------------------------------------------------

\* C26 as stated: the command replaces the unit only by a text that differs
\* from it; on a unit that is reflowed already it applies no edit.
C26_CommandOnlyRealEdit ==
  pc = "reflowDone" =>
    \A n \in DOMAIN edits :
      edits[n].newText # getText(document, edits[n].s, edits[n].e)

\* ------------------------------------------------------------------------
\* Properties of reflowLines on list and blockquote units
\* ------------------------------------------------------------------------

\* C27 as stated: for a unit whose first line is a list item or a
\* blockquote, reflowLines returns one line at least, and the first one
\* begins with the indent and the prefix of the first line of the unit, also
\* when the unit has no content: the marker is never replaced by nothing.
C27_MarkerKept ==
  phase \in {"reflowed", "again"} =>
    LET c == getLineContext(unit[1])
    IN c.type \in {"list", "blockquote"} =>
         /\ Len(reflowed) >= 1
         /\ Len(reflowed[1]) >= Len(c.indent \o c.prefix)
         /\ SubSeq(reflowed[1], 1, Len(c.indent \o c.prefix)) = c.indent \o c.prefix

\* ------------------------------------------------------------------------
\* Properties of the number of lines of reflowLines
\* ------------------------------------------------------------------------

\* the words of the unit
unitWordsAll == unitWords(unit, 0, Len(unit) - 1)

\* A division of the words into lines is the set of the words after which
\* a line ends, the last word left out.  It is allowed when every line of
\* two words or more, one space between the words, is no longer than the
\* effective width.
allowedDivision(breaks) ==
  \A a, b \in DOMAIN unitWordsAll :
    (a < b /\ \A k \in a..(b - 1) : k \notin breaks) =>
      Len(join(SubSeq(unitWordsAll, a, b), <<" ">>)) <= effectiveWidth

divisions == SUBSET (1..(Len(unitWordsAll) - 1))

\* C28: no allowed division of the words of the unit has fewer lines than
\* reflowLines returns.
C28_FewestLines ==
  phase \in {"reflowed", "again"} =>
    \A breaks \in divisions :
      allowedDivision(breaks) => Cardinality(breaks) + 1 >= Len(reflowed)

\* C28 witness: a paragraph reflowed into three lines or more that has an
\* allowed division of more lines, and a division of fewer lines, which is
\* not allowed
C28_Witness ==
  /\ phase = "reflowed"
  /\ Len(reflowed) >= 3
  /\ \E breaks \in divisions :
       allowedDivision(breaks) /\ Cardinality(breaks) + 1 > Len(reflowed)
  /\ \E breaks \in divisions :
       ~allowedDivision(breaks) /\ Cardinality(breaks) + 1 = Len(reflowed) - 1

\* ------------------------------------------------------------------------
\* Properties of a pass over a range after a pass over the document
\* ------------------------------------------------------------------------

\* the edit lies within the range of the request
withinTarget(edit) == startLine <= edit.s /\ edit.e <= endLine

\* C29: for a range that lies after the front matter, the edits of the pass
\* over the range are the edits of the pass over the whole document that
\* lie within the range, in the same order.
C29_RangeAgreesWithDocument ==
  (/\ pc = "done"
   /\ invocation = 2
   /\ hasRange
   /\ fm # NoRange => startLine > fm.e) =>
    edits = SelectSeq(firstEdits, withinTarget)

\* C29 witness: a finished pass over a range that returned an edit, after a
\* pass over the document that returned that edit and another one, outside
\* the range
C29_Witness ==
  /\ pc = "done"
  /\ invocation = 2
  /\ hasRange
  /\ edits # <<>>
  /\ Len(firstEdits) > Len(edits)

====
